---- MODULE Spec2Model ----
(***************************************************************************)
(* Model of the ESP32 train departure board (P10 LED matrix).              *)
(*                                                                         *)
(* Two program variants are modelled:                                      *)
(*   "ntp"  the NTP-synced sketch   (src/unnamed/part_000)                 *)
(*   "api"  the API-synced sketch   (src/src/main.cpp)                     *)
(*                                                                         *)
(* The program is sequential code, so every function of the sketch is an   *)
(* operator from a record of the globals (and the inputs the environment   *)
(* supplies during the call) to the record after the call.  The actions    *)
(* are the steps of setup() and loop(); `pc` is the position of the main   *)
(* thread.                                                                 *)
(***************************************************************************)
EXTENDS Integers, Sequences, FiniteSets, TLC

(***************************************************************************)
(* Program constants                                                       *)
(***************************************************************************)
DISPLAYS_ACROSS == 2
TEXT_Y_POS == 2
TEXT_Y_SYS_POS == 4
TRAIN_DEP_TIME_X_OFFSET == 8
fetchInterval == 5 * 60 * 1000
TIME_DISPLAY_DURATION == 10000
INFO_HOLD_DURATION == 2500
WIFI_CHECK_INTERVAL == 30000
HTTP_CODE_OK == 200
HTTP_TIMEOUT == 15000
MARQUEE_STEP_MS == 35
animSpeed == 20
screenHeight == 16
MAX_POLLS == 40
POLL_DELAY == 500

FONT_ARIAL_14 == "FONT_ARIAL_14"
FONT_SYSTEM_5X7 == "FONT_SYSTEM_5X7"

STATE_SHOW_TIME == "STATE_SHOW_TIME"
STATE_SHOW_WEATHER == "STATE_SHOW_WEATHER"
STATE_SHOW_DEPARTURES_HEADER == "STATE_SHOW_DEPARTURES_HEADER"
STATE_SHOW_DEPARTURES == "STATE_SHOW_DEPARTURES"

\* The byte 0xF8 (degree glyph of SystemFont5x7) is written "*" here.
DEGREE == "*"

(***************************************************************************)
(* Bounds of the model (environment parameters, not program constants)     *)
(***************************************************************************)
\* Time one iteration of loop() takes besides its own delays, in ms.
LoopMs == 750
\* Round-trip time of an HTTP request that is answered, in ms.
HttpLatency == 400
\* Pixel columns one character of a marquee text takes.
CharWidth == 6
\* Iterations of the one-second NTP wait loop of setup().
NtpWait == 1
\* Longest list of departures in an API response.
MaxDepartures == 3
\* The main loop is followed for this many ms after setup() has returned.
MaxRun == 340000
\* Calls of fetchData that loop() makes in one run.
MaxLoopFetches == 2
\* Link losses the link supervisor may observe in one run.
MaxLinkDrops == 1
\* The link may be lost during this many ms after setup() has returned.
LinkDropWindow == 35000
\* Time of day at power-on, in seconds after midnight.
BootTimeOfDay == 86080
\* The run with the refresh timer interleaved is followed for this many ms.
ScanRun == 40000
\* Largest maxRetries connectToWiFiRobust is called with on its own.
MaxRetriesArg == 3
\* Longest time, in ms, between two reads of millis() in the marquee loop.
ScrollJitter == 3

(***************************************************************************)
(* State                                                                   *)
(***************************************************************************)
VARIABLES
  variant, pc, now, epoch, linkDrops,
  lastWiFiCheck, lastDataFetch, lastSecondTick,
  currentHour, currentMinute, currentSecond,
  weatherString, stationName, departures,
  currentState, stateChangeTimestamp, currentTrainIndex, lastShownTrainIndex,
  enterTime, firstEntry, lastDisplayedSecond,
  currentFont, currentYOffset, fb, panel,
  loopStart, iterStart, fresh, drawnSecond, lastLoopFetch, loopFetches,
  pass, ev, call

progVars == <<now, epoch, linkDrops,
  lastWiFiCheck, lastDataFetch, lastSecondTick,
  currentHour, currentMinute, currentSecond,
  weatherString, stationName, departures,
  currentState, stateChangeTimestamp, currentTrainIndex, lastShownTrainIndex,
  enterTime, firstEntry, lastDisplayedSecond,
  currentFont, currentYOffset, fb, panel,
  loopStart, iterStart, fresh, drawnSecond, lastLoopFetch, loopFetches,
  pass, ev>>

vars == <<variant, pc, progVars, call>>

\* What one step of the main thread did (rewritten by every step).
NoEv == [op |-> "none", fetched |-> FALSE, kind |-> "none", code |-> 0,
         link |-> TRUE, beginOk |-> TRUE, valid |-> TRUE,
         array |-> <<>>, sizeBefore |-> 0, lostAt |-> -1,
         cleared |-> FALSE, state |-> "", entry |-> FALSE, redraw |-> FALSE,
         render |-> "none", from |-> -1, to |-> -1, indexed |-> {},
         oob |-> FALSE, frames |-> 0, delayed |-> 0, steps |-> 0,
         iconAtScroll |-> FALSE, attempts |-> 0, polls |-> 0,
         frameLog |-> <<>>, marquee |-> "", named |-> FALSE,
         out |-> <<>>, pollLog |-> <<>>]

\* The departures pass in progress: the list length at its first tick, the
\* renders made so far and the record rendered last (<<>> when none).
NoPass == [active |-> FALSE, done |-> FALSE, n |-> 0, log |-> <<>>,
           replaced |-> FALSE, last |-> <<>>]

\* The globals as one record.
Cur == [now |-> now, epoch |-> epoch, linkDrops |-> linkDrops,
        lastWiFiCheck |-> lastWiFiCheck, lastDataFetch |-> lastDataFetch,
        lastSecondTick |-> lastSecondTick,
        currentHour |-> currentHour, currentMinute |-> currentMinute,
        currentSecond |-> currentSecond,
        weatherString |-> weatherString, stationName |-> stationName,
        departures |-> departures,
        currentState |-> currentState,
        stateChangeTimestamp |-> stateChangeTimestamp,
        currentTrainIndex |-> currentTrainIndex,
        lastShownTrainIndex |-> lastShownTrainIndex,
        enterTime |-> enterTime, firstEntry |-> firstEntry,
        lastDisplayedSecond |-> lastDisplayedSecond,
        currentFont |-> currentFont, currentYOffset |-> currentYOffset,
        fb |-> fb, panel |-> panel,
        loopStart |-> loopStart, iterStart |-> iterStart, fresh |-> fresh, drawnSecond |-> drawnSecond,
        lastLoopFetch |-> lastLoopFetch, loopFetches |-> loopFetches,
        pass |-> pass, ev |-> NoEv]

Install(g) ==
  /\ now' = g.now
  /\ epoch' = g.epoch
  /\ linkDrops' = g.linkDrops
  /\ lastWiFiCheck' = g.lastWiFiCheck
  /\ lastDataFetch' = g.lastDataFetch
  /\ lastSecondTick' = g.lastSecondTick
  /\ currentHour' = g.currentHour
  /\ currentMinute' = g.currentMinute
  /\ currentSecond' = g.currentSecond
  /\ weatherString' = g.weatherString
  /\ stationName' = g.stationName
  /\ departures' = g.departures
  /\ currentState' = g.currentState
  /\ stateChangeTimestamp' = g.stateChangeTimestamp
  /\ currentTrainIndex' = g.currentTrainIndex
  /\ lastShownTrainIndex' = g.lastShownTrainIndex
  /\ enterTime' = g.enterTime
  /\ firstEntry' = g.firstEntry
  /\ lastDisplayedSecond' = g.lastDisplayedSecond
  /\ currentFont' = g.currentFont
  /\ currentYOffset' = g.currentYOffset
  /\ fb' = g.fb
  /\ panel' = g.panel
  /\ loopStart' = g.loopStart
  /\ iterStart' = g.iterStart
  /\ fresh' = g.fresh
  /\ drawnSecond' = g.drawnSecond
  /\ lastLoopFetch' = g.lastLoopFetch
  /\ loopFetches' = g.loopFetches
  /\ pass' = g.pass
  /\ ev' = g.ev

(***************************************************************************)
(* Arduino core and render surface                                         *)
(***************************************************************************)
millis(g) == g.now

\* millis() - since, for timestamps taken in the same run.
Elapsed(g, since) == millis(g) - since

delay(g, ms) == [g EXCEPT !.now = @ + ms, !.ev.delayed = @ + ms]

\* Time that passes while the main thread runs or spins without delay().
busy(g, ms) == [g EXCEPT !.now = @ + ms]

setFont(g, font) ==
  [g EXCEPT !.currentFont = font,
            !.currentYOffset = IF font = FONT_ARIAL_14 THEN TEXT_Y_POS
                               ELSE TEXT_Y_SYS_POS]

clearScreen(g) == [g EXCEPT !.fb = <<>>, !.ev.cleared = TRUE]

TextItem(g, x, y, s) ==
  [k |-> "text", x |-> x, y |-> y, s |-> s, f |-> g.currentFont]

drawString(g, x, y, s) == [g EXCEPT !.fb = Append(@, TextItem(g, x, y, s))]

TrainIcon(x, y) == [k |-> "bitmap", x |-> x, y |-> y, s |-> "trainIconBitmap", f |-> ""]

drawBitmap(g, x, y) == [g EXCEPT !.fb = Append(@, TrainIcon(x, y))]

HasIcon(buf) == \E i \in 1..Len(buf) : buf[i].k = "bitmap"

(***************************************************************************)
(* Strings                                                                 *)
(***************************************************************************)
RECURSIVE Join(_)
\* A String built from its characters.
Join(chars) == IF chars = <<>> THEN "" ELSE Head(chars) \o Join(Tail(chars))

\* Faulty variant: "%d", no padding.
PadNone(n) == ToString(n)

\* "%02d"
Pad2(n) == IF n >= 0 /\ n < 10 THEN "0" \o ToString(n) ELSE ToString(n)

\* sprintf(timeBuffer, "%02d:%02d:%02d", h, m, s)
TimeString(h, m, s) == Pad2(h) \o ":" \o Pad2(m) \o ":" \o Pad2(s)

\* temp.replace("^", "\xf8")
ReplaceCaret(chars) ==
  [i \in 1..Len(chars) |-> IF chars[i] = "^" THEN DEGREE ELSE chars[i]]

(***************************************************************************)
(* Scrolling marquee                                                       *)
(***************************************************************************)
\* dmd.drawMarquee: the text is placed at column `left`; its width in pixel
\* columns is what the DMD library computes from the font.
MarqueeWidth(text) == CharWidth * Len(text)

MarqueeItem(g, text, x, y) ==
  [k |-> "marquee", x |-> x, y |-> y, s |-> text, f |-> g.currentFont]

\* while (!ret) { if ((millis() - timer) > 35) { ret = dmd.stepMarquee(-1, 0);
\* timer = millis(); } }   stepMarquee(-1, 0) moves the text one column to the
\* left and reports true once it has left the panel: step k puts the text at
\* column x - k, and the loop ends with the first k for which x - k < -width.
ScrollSteps(x, width) ==
  IF x + width + 1 > 1 THEN x + width + 1 ELSE 1

\* The busy loop steps at the first millisecond at which more than 35 ms have
\* passed since the last step.  When the last step reports true the library
\* has cleared the screen.
ScrollLoop(g, text, left) ==
  LET n == ScrollSteps(left, MarqueeWidth(text))
  IN [busy(g, n * (MARQUEE_STEP_MS + 1)) EXCEPT !.fb = <<>>, !.ev.steps = n]

\* displayScrollingText of the NTP-synced sketch.
displayScrollingText(g, text, left, top) ==
  LET yPos == IF top = -1 THEN g.currentYOffset ELSE top
      g1 == delay(clearScreen(g), 10)
      g2 == [g1 EXCEPT !.fb = Append(@, MarqueeItem(g1, text, left, yPos)),
                       !.ev.iconAtScroll = HasIcon(g1.fb),
                       !.ev.marquee = text]
  IN clearScreen(ScrollLoop(g2, text, left))

\* displayScrollingText of the API-synced sketch.
displayScrollingTextApi(g, text) ==
  LET g1 == clearScreen(g)
      g2 == [g1 EXCEPT !.fb = Append(@, MarqueeItem(g1, text, 32 * DISPLAYS_ACROSS,
                                                    g1.currentYOffset)),
                       !.ev.iconAtScroll = HasIcon(g1.fb),
                       !.ev.marquee = text]
  IN ScrollLoop(g2, text, 32 * DISPLAYS_ACROSS)

(***************************************************************************)
(* Slide-up transition between two departures                              *)
(***************************************************************************)
\* A TrainInfo pointer is <<>> (null) or <<record>>.
TimeAndDelay(train) == train.departureTime \o " " \o train.delay

\* Faulty variant: the line is drawn whatever its row.
DrawUnclipped(cond, g, x, y, s) == drawString(g, x, y, s)

DrawIf(cond, g, x, y, s) == IF cond THEN drawString(g, x, y, s) ELSE g

\* Faulty variant: the incoming record starts one row too low, so after the
\* last frame it sits at rows 1 and 9.
AnimFrameInLow(g, y, outgoingTrain, incomingTrain) ==
  LET outDest == IF outgoingTrain # <<>> THEN outgoingTrain[1].destination ELSE ""
      outTime == IF outgoingTrain # <<>> THEN TimeAndDelay(outgoingTrain[1]) ELSE ""
      inDest == IF incomingTrain # <<>> THEN incomingTrain[1].destination ELSE ""
      inTime == IF incomingTrain # <<>> THEN TimeAndDelay(incomingTrain[1]) ELSE ""
      g1 == clearScreen(g)
      outDestY == 0 - y
      outTimeY == 8 - y
      g2 == IF outgoingTrain # <<>> /\ Len(outDest) > 0
            THEN DrawIf(outTimeY > -8 /\ outTimeY < screenHeight,
                        DrawIf(outDestY > -8, g1, 2, outDestY, outDest),
                        TRAIN_DEP_TIME_X_OFFSET, outTimeY, outTime)
            ELSE g1
      inDestY == (screenHeight + 1) - y
      inTimeY == (screenHeight + 9) - y
      g3 == IF incomingTrain # <<>> /\ Len(inDest) > 0
            THEN DrawIf(inTimeY < screenHeight /\ inTimeY > -8,
                        DrawIf(inDestY < screenHeight /\ inDestY > -8,
                               g2, 2, inDestY, inDest),
                        TRAIN_DEP_TIME_X_OFFSET, inTimeY, inTime)
            ELSE g2
  IN [delay(g3, animSpeed) EXCEPT !.ev.frames = @ + 1]

\* The body of the animation loop for one value of y: clearScreen, the
\* outgoing record at (0 - y, 8 - y), the incoming record at
\* (screenHeight - y, screenHeight + 8 - y), each line under the guard the
\* code puts on it, then delay(animSpeed).
AnimFrame(g, y, outgoingTrain, incomingTrain) ==
  LET outDest == IF outgoingTrain # <<>> THEN outgoingTrain[1].destination ELSE ""
      outTime == IF outgoingTrain # <<>> THEN TimeAndDelay(outgoingTrain[1]) ELSE ""
      inDest == IF incomingTrain # <<>> THEN incomingTrain[1].destination ELSE ""
      inTime == IF incomingTrain # <<>> THEN TimeAndDelay(incomingTrain[1]) ELSE ""
      g1 == clearScreen(g)
      outDestY == 0 - y
      outTimeY == 8 - y
      g2 == IF outgoingTrain # <<>> /\ Len(outDest) > 0
            THEN DrawIf(outTimeY > -8 /\ outTimeY < screenHeight,
                        DrawIf(outDestY > -8, g1, 2, outDestY, outDest),
                        TRAIN_DEP_TIME_X_OFFSET, outTimeY, outTime)
            ELSE g1
      inDestY == screenHeight - y
      inTimeY == (screenHeight + 8) - y
      g3 == IF incomingTrain # <<>> /\ Len(inDest) > 0
            THEN DrawIf(inTimeY < screenHeight /\ inTimeY > -8,
                        DrawIf(inDestY < screenHeight /\ inDestY > -8,
                               g2, 2, inDestY, inDest),
                        TRAIN_DEP_TIME_X_OFFSET, inTimeY, inTime)
            ELSE g2
  IN [delay(g3, animSpeed) EXCEPT !.ev.frames = @ + 1]

\* Faulty variant: the loop stops one row early.
AnimCondExclusive(y) == y < screenHeight

\* The loop condition of  for (int y = 0; y <= screenHeight; y++).
AnimCond(y) == y <= screenHeight

RECURSIVE AnimYs(_)
\* The values y takes in the loop, in order, starting from y.
AnimYs(y) == IF AnimCond(y) THEN <<y>> \o AnimYs(y + 1) ELSE <<>>

\* Every frame starts from a cleared screen, so the panel after the loop is
\* the one of the last frame, and the frames and their delays add up.
animateTrainSlideUp(g, outgoingTrain, incomingTrain) ==
  LET ys == AnimYs(0)
      n == Len(ys)
  IN IF n = 0 THEN g
     ELSE LET last == AnimFrame(g, ys[n], outgoingTrain, incomingTrain)
          IN [last EXCEPT !.now = g.now + n * animSpeed,
                          !.ev.delayed = g.ev.delayed + n * animSpeed,
                          !.ev.frames = g.ev.frames + n,
                          !.ev.frameLog = [k \in 1..n |->
                              AnimFrame(g, ys[k], outgoingTrain, incomingTrain).fb]]

(***************************************************************************)
(* Wi-Fi connection                                                        *)
(***************************************************************************)
RECURSIVE PollLoopOneMore(_, _)
\* Faulty variant: the poll count is tested with <=.
PollLoopOneMore(attempts, assocAt) ==
  IF attempts < assocAt /\ attempts <= MAX_POLLS
  THEN PollLoopOneMore(attempts + 1, assocAt)
  ELSE attempts

RECURSIVE PollLoop(_, _)
\* while (WiFi.status() != WL_CONNECTED && attempts < 40) { delay(500);
\* attempts++; }   The link of this attempt reads connected from the
\* assocAt-th poll on; the result is the number of polls made.
PollLoop(attempts, assocAt) ==
  IF attempts < assocAt /\ attempts < MAX_POLLS
  THEN PollLoop(attempts + 1, assocAt)
  ELSE attempts

RECURSIVE ConnectLoop(_, _, _, _)
\* for (int retry = 0; retry < maxRetries; retry++) { ... }
\* script[retry + 1] is the poll from which the link of that attempt reads
\* connected.
ConnectLoop(g, retry, maxRetries, script) ==
  IF ~(retry < maxRetries) THEN [g |-> g, ok |-> FALSE]
  ELSE
    LET assocAt == script[retry + 1]
        g1 == delay(g, 1000)
        attempts == PollLoop(0, assocAt)
        g2 == [delay(g1, POLL_DELAY * attempts)
                 EXCEPT !.ev.attempts = @ + 1, !.ev.polls = @ + attempts,
                        !.ev.pollLog = Append(@, attempts)]
    IN IF attempts >= assocAt
       THEN [g |-> delay(g2, 2000), ok |-> TRUE]
       ELSE ConnectLoop(delay(g2, 2000), retry + 1, maxRetries, script)

\* Faulty variant: a single attempt is made whatever maxRetries says.
connectWithoutRetry(g, maxRetries, script) == ConnectLoop(g, 0, 1, script)

connectToWiFiRobust(g, maxRetries, script) == ConnectLoop(g, 0, maxRetries, script)

(***************************************************************************)
(* API responses (inputs)                                                  *)
(***************************************************************************)
RawTrainA == [type |-> "REG", destination |-> "Bologna", departureTime |-> "19:10",
              delay |-> "+5"]
RawTrainB == [type |-> "IC", destination |-> "Milano", departureTime |-> "19:25",
              delay |-> ""]

\* A departures array of n entries, starting with train A or train B.
Window(n, first) ==
  [i \in 1..n |-> IF (i + first) % 2 = 0 THEN RawTrainA ELSE RawTrainB]

Chars2010 == <<"2", "0", "^">>
Time1910 == <<"1", "9", ":", "1", "0">>
Time235958 == <<"2", "3", ":", "5", "9", ":", "5", "8">>
\* A time field that is no time of day.
Time246061 == <<"2", "4", ":", "6", "0", ":", "6", "1">>

\* doc.stationName and doc.time are <<>> when the field is absent.
Response(n, named) ==
  [valid |-> TRUE,
   temperature |-> Chars2010, description |-> "Clear",
   stationName |-> IF named THEN <<"Modena">> ELSE <<>>,
   time |-> IF n = 0 THEN <<>> ELSE IF ~named THEN <<Time1910>>
           ELSE IF n = 1 THEN <<Time235958>> ELSE <<Time246061>>,
   departures |-> Window(n, IF named THEN 1 ELSE 0)]

MalformedResponse == [Response(0, FALSE) EXCEPT !.valid = FALSE]

Responses ==
  {MalformedResponse} \cup {Response(n, n % 2 = 1) : n \in 0..MaxDepartures}

HTTPC_ERROR_READ_TIMEOUT == -11

\* What the network answers to one call of fetchData: the link status read by
\* WiFi.status(), the result of http.begin, the result of http.GET and the
\* payload of a 200 answer.
FetchInputs ==
  {[link |-> FALSE, beginOk |-> TRUE, httpCode |-> 0, payload |-> MalformedResponse]}
  \cup {[link |-> TRUE, beginOk |-> FALSE, httpCode |-> 0, payload |-> MalformedResponse]}
  \cup {[link |-> TRUE, beginOk |-> TRUE, httpCode |-> c, payload |-> MalformedResponse] :
          c \in {HTTPC_ERROR_READ_TIMEOUT, 404}}
  \cup {[link |-> TRUE, beginOk |-> TRUE, httpCode |-> HTTP_CODE_OK, payload |-> r] :
          r \in Responses}

\* Time http.GET() blocks: the 15 s timeout, or the round trip.
GetDuration(httpCode) ==
  IF httpCode = HTTPC_ERROR_READ_TIMEOUT THEN HTTP_TIMEOUT ELSE HttpLatency

(***************************************************************************)
(* fetchData                                                               *)
(***************************************************************************)
RECURSIVE ParseDepartures(_, _)
\* for (JsonObject train : departuresArray) { ... departures.push_back(newTrain); }
ParseDepartures(departuresArray, list) ==
  IF departuresArray = <<>> THEN list
  ELSE LET train == Head(departuresArray)
           newTrain == [type |-> train.type,
                        destination |-> "-> " \o train.destination,
                        departureTime |-> train.departureTime,
                        delay |-> train.delay]
       IN ParseDepartures(Tail(departuresArray), Append(list, newTrain))

\* weatherString = temp + " - " + desc
ParseWeather(doc) == Join(ReplaceCaret(doc.temperature)) \o " - " \o doc.description

\* Faulty variant: the old records stay in the list.
KeepDepartures(g) == g

\* departures.clear(): the list is emptied; a pass in progress has lost its list.
ClearDepartures(g) ==
  [g EXCEPT !.departures = <<>>,
            !.pass.replaced = g.pass.active \/ @]

\* The HTTP_CODE_OK branch of the NTP-synced fetchData (lines 485-530).
\* The result is <<record, returned early>>.
ParsePayload(g, payload) ==
  LET g1 == ClearDepartures(g)
  IN IF ~payload.valid
     THEN <<[g1 EXCEPT !.weatherString = "JSON Error", !.ev.kind = "json"], TRUE>>
     ELSE <<[g1 EXCEPT !.weatherString = ParseWeather(payload),
                       !.stationName = IF payload.stationName # <<>>
                                       THEN payload.stationName[1] ELSE @,
                       !.departures = ParseDepartures(payload.departures, @),
                       !.ev.kind = "ok"], FALSE>>

\* Faulty variant: the end of a fetch restarts the display cycle.
EndFetchResetsCycle(g) ==
  [g EXCEPT !.lastDataFetch = millis(g), !.currentState = STATE_SHOW_TIME,
            !.stateChangeTimestamp = millis(g)]

\* http.end(); lastDataFetch = millis();
EndFetch(g) == [g EXCEPT !.lastDataFetch = millis(g)]

\* Faulty variant: the status code is reported as a transport failure.
HttpErrorTextAsTransport(httpCode) == "Connection Failed"

\* weatherString = "HTTP Error " + String(httpCode);
HttpErrorText(httpCode) == "HTTP Error " \o ToString(httpCode)

\* fetchData of the NTP-synced sketch.
fetchData(g, in) ==
  LET g0 == [g EXCEPT !.ev.fetched = TRUE, !.ev.code = in.httpCode,
                      !.ev.link = in.link, !.ev.beginOk = in.beginOk,
                      !.ev.valid = in.payload.valid,
                      !.ev.array = in.payload.departures,
                      !.ev.named = in.payload.stationName # <<>>,
                      !.ev.sizeBefore = Len(g.departures)]
  IN IF ~in.link
     THEN [g0 EXCEPT !.weatherString = "WiFi Down", !.ev.kind = "linkDown"]
     ELSE IF ~in.beginOk
     THEN [g0 EXCEPT !.weatherString = "DNS Error", !.ev.kind = "dns"]
     ELSE
       LET httpCode == in.httpCode
           g1 == delay(g0, GetDuration(httpCode))
       IN IF httpCode > 0
          THEN IF httpCode = HTTP_CODE_OK
               THEN LET r == ParsePayload(g1, in.payload)
                    IN IF r[2] THEN r[1] ELSE EndFetch(r[1])
               ELSE EndFetch([g1 EXCEPT
                       !.weatherString = HttpErrorText(httpCode),
                       !.ev.kind = "http"])
          ELSE EndFetch([g1 EXCEPT !.weatherString = "Connection Failed",
                                   !.ev.kind = "transport"])

(***************************************************************************)
(* fetchData of the API-synced sketch, with its clock sync                 *)
(***************************************************************************)
DigitOf(c) ==
  CASE c = "0" -> 0 [] c = "1" -> 1 [] c = "2" -> 2 [] c = "3" -> 3 [] c = "4" -> 4
    [] c = "5" -> 5 [] c = "6" -> 6 [] c = "7" -> 7 [] c = "8" -> 8 [] c = "9" -> 9
    [] OTHER -> -1

RECURSIVE ScanDigits(_, _, _, _)
\* The digits of a %d conversion from position pos on: <<value, next position,
\* number of digits>>.
ScanDigits(chars, pos, value, n) ==
  IF pos <= Len(chars) /\ DigitOf(chars[pos]) >= 0
  THEN ScanDigits(chars, pos + 1, 10 * value + DigitOf(chars[pos]), n + 1)
  ELSE <<value, pos, n>>

\* sscanf(timeStr, "%d:%d:%d", &h, &m, &s): the number of conversions made and
\* the three targets after the call (a target not reached keeps its value).
Sscanf3(chars, h, m, s) ==
  LET a == ScanDigits(chars, 1, 0, 0)
  IN IF a[3] = 0 THEN [parsed |-> 0, h |-> h, m |-> m, s |-> s]
     ELSE IF ~(a[2] <= Len(chars) /\ chars[a[2]] = ":")
     THEN [parsed |-> 1, h |-> a[1], m |-> m, s |-> s]
     ELSE LET b == ScanDigits(chars, a[2] + 1, 0, 0)
          IN IF b[3] = 0 THEN [parsed |-> 1, h |-> a[1], m |-> m, s |-> s]
             ELSE IF ~(b[2] <= Len(chars) /\ chars[b[2]] = ":")
             THEN [parsed |-> 2, h |-> a[1], m |-> b[1], s |-> s]
             ELSE LET c == ScanDigits(chars, b[2] + 1, 0, 0)
                  IN IF c[3] = 0
                     THEN [parsed |-> 2, h |-> a[1], m |-> b[1], s |-> s]
                     ELSE [parsed |-> 3, h |-> a[1], m |-> b[1], s |-> c[1]]

\* Sync local time (main.cpp lines 369-382).
SyncTime(g, payload) ==
  IF payload.time = <<>> THEN g
  ELSE LET r == Sscanf3(payload.time[1], g.currentHour, g.currentMinute,
                        g.currentSecond)
       IN [g EXCEPT !.currentHour = r.h, !.currentMinute = r.m,
                    !.currentSecond = IF r.parsed < 3 THEN 0 ELSE r.s]

\* The HTTP_CODE_OK branch of the API-synced fetchData (lines 351-402).
ParsePayloadApi(g, payload) ==
  LET g1 == ClearDepartures(g)
  IN IF ~payload.valid
     THEN <<[g1 EXCEPT !.weatherString = "JSON Error", !.ev.kind = "json"], TRUE>>
     ELSE <<[SyncTime(g1, payload) EXCEPT
                       !.weatherString = ParseWeather(payload),
                       !.departures = ParseDepartures(payload.departures, @),
                       !.ev.kind = "ok"], FALSE>>

fetchDataApi(g, in) ==
  LET g0 == drawString(clearScreen([g EXCEPT !.ev.fetched = TRUE,
                                             !.ev.code = in.httpCode,
                                             !.ev.valid = in.payload.valid,
                                             !.ev.array = in.payload.departures,
                                             !.ev.named = in.payload.stationName # <<>>,
                                             !.ev.sizeBefore = Len(g.departures)]),
                       2, TEXT_Y_POS, "Updating")
      httpCode == in.httpCode
      g1 == delay(g0, GetDuration(httpCode))
  IN IF httpCode > 0
     THEN IF httpCode = HTTP_CODE_OK
          THEN LET r == ParsePayloadApi(g1, in.payload)
               IN IF r[2] THEN r[1] ELSE EndFetch(r[1])
          ELSE EndFetch([g1 EXCEPT
                  !.weatherString = HttpErrorText(httpCode),
                  !.ev.kind = "http"])
     ELSE EndFetch([g1 EXCEPT !.weatherString = "Connection Failed",
                              !.ev.kind = "transport"])

(***************************************************************************)
(* Clock                                                                   *)
(***************************************************************************)
SecondsOfDay(g) == (g.epoch + (g.now \div 1000)) % 86400

\* if (getLocalTime(&timeinfo)) { currentHour = ...; } of the NTP-synced
\* sketch: local time is the time of day at boot plus the time since boot.
UpdateClock(g) ==
  LET t == SecondsOfDay(g)
  IN [g EXCEPT !.currentHour = t \div 3600,
               !.currentMinute = (t % 3600) \div 60,
               !.currentSecond = t % 60]

\* The local clock of the API-synced sketch (main.cpp lines 176-191).
ClockTickApi(g) ==
  IF Elapsed(g, g.lastSecondTick) >= 1000
  THEN LET s1 == g.currentSecond + 1
           m1 == IF s1 >= 60 THEN g.currentMinute + 1 ELSE g.currentMinute
           h1 == IF s1 >= 60 /\ m1 >= 60 THEN g.currentHour + 1 ELSE g.currentHour
       IN [g EXCEPT !.lastSecondTick = millis(g),
                    !.currentSecond = IF s1 >= 60 THEN 0 ELSE s1,
                    !.currentMinute = IF s1 >= 60 /\ m1 >= 60 THEN 0 ELSE m1,
                    !.currentHour = IF s1 >= 60 /\ m1 >= 60 /\ h1 >= 24 THEN 0 ELSE h1]
  ELSE g

(***************************************************************************)
(* Display state machine                                                   *)
(***************************************************************************)
\* Faulty variant: the entry block does not take the entry time.
ShowTimeEntryKeepsTime(g) ==
  IF g.stateChangeTimestamp # 0
  THEN setFont(clearScreen([g EXCEPT !.stateChangeTimestamp = 0,
                                     !.firstEntry = TRUE,
                                     !.lastDisplayedSecond = -1,
                                     !.ev.entry = TRUE]),
               FONT_ARIAL_14)
  ELSE g

\* Entry block of STATE_SHOW_TIME (NTP-synced, lines 300-308).
ShowTimeEntry(g) ==
  IF g.stateChangeTimestamp # 0
  THEN setFont(clearScreen([g EXCEPT !.enterTime = millis(g),
                                     !.stateChangeTimestamp = 0,
                                     !.firstEntry = TRUE,
                                     !.lastDisplayedSecond = -1,
                                     !.ev.entry = TRUE]),
               FONT_ARIAL_14)
  ELSE g

\* Faulty variant: the time is redrawn on every tick.
ShowTimeRedrawAlways(g, x) ==
  [drawString(clearScreen(g), x, g.currentYOffset,
              TimeString(g.currentHour, g.currentMinute, g.currentSecond))
     EXCEPT !.lastDisplayedSecond = g.currentSecond,
            !.firstEntry = FALSE,
            !.drawnSecond = g.currentSecond,
            !.ev.redraw = TRUE]

\* Redraw block of STATE_SHOW_TIME; the time is drawn at column x.
ShowTimeRedraw(g, x) ==
  IF g.currentSecond # g.lastDisplayedSecond
  THEN [drawString(clearScreen(g), x, g.currentYOffset,
                   TimeString(g.currentHour, g.currentMinute, g.currentSecond))
          EXCEPT !.lastDisplayedSecond = g.currentSecond,
                 !.firstEntry = FALSE,
                 !.drawnSecond = g.currentSecond,
                 !.ev.redraw = TRUE]
  ELSE g

\* Faulty variant: the weather stage is skipped.
ShowTimeExitSkipsWeather(g) ==
  IF Elapsed(g, g.enterTime) > TIME_DISPLAY_DURATION
  THEN [g EXCEPT !.currentState = STATE_SHOW_DEPARTURES_HEADER,
                 !.stateChangeTimestamp = millis(g),
                 !.lastDisplayedSecond = -1]
  ELSE g

\* Exit block of STATE_SHOW_TIME (NTP-synced, lines 334-339).
ShowTimeExit(g) ==
  IF Elapsed(g, g.enterTime) > TIME_DISPLAY_DURATION
  THEN [g EXCEPT !.currentState = STATE_SHOW_WEATHER,
                 !.stateChangeTimestamp = millis(g),
                 !.lastDisplayedSecond = -1]
  ELSE g

StateShowTime(g) == ShowTimeExit(ShowTimeRedraw(ShowTimeEntry(g), 10))

\* STATE_SHOW_TIME of the API-synced sketch (lines 199-223).
StateShowTimeApi(g) ==
  LET g1 == IF g.stateChangeTimestamp # 0
            THEN [g EXCEPT !.enterTime = millis(g), !.stateChangeTimestamp = 0,
                           !.ev.entry = TRUE]
            ELSE g
      g2 == [ShowTimeRedraw(g1, 11) EXCEPT !.firstEntry = g.firstEntry]
  IN IF Elapsed(g2, g2.enterTime) > TIME_DISPLAY_DURATION
     THEN [g2 EXCEPT !.currentState = STATE_SHOW_WEATHER,
                     !.stateChangeTimestamp = millis(g2)]
     ELSE g2

StateShowWeather(g) ==
  LET g1 == displayScrollingText(clearScreen(setFont(g, FONT_ARIAL_14)),
                                 g.weatherString, 32 * DISPLAYS_ACROSS, -1)
  IN [g1 EXCEPT !.currentState = STATE_SHOW_DEPARTURES_HEADER,
                !.stateChangeTimestamp = millis(g1)]

StateShowWeatherApi(g) ==
  LET g1 == displayScrollingTextApi(setFont(g, FONT_ARIAL_14), g.weatherString)
  IN [g1 EXCEPT !.currentState = STATE_SHOW_DEPARTURES_HEADER,
                !.stateChangeTimestamp = millis(g1)]

\* Faulty variant: no fallback for an empty station name.
HeaderTextNoFallback(g) == "Treni da " \o g.stationName

\* "Treni da " + (stationName.length() > 0 ? stationName : "CF")
HeaderText(g) == "Treni da " \o (IF Len(g.stationName) > 0 THEN g.stationName ELSE "CF")

StateShowDeparturesHeader(g) ==
  LET g1 == setFont(delay(clearScreen(g), 50), FONT_SYSTEM_5X7)
      g2 == drawBitmap(g1, 0, 0)
      g3 == displayScrollingText(g2, HeaderText(g2), 32 * DISPLAYS_ACROSS, -1)
  IN [g3 EXCEPT !.currentState = STATE_SHOW_DEPARTURES,
                !.stateChangeTimestamp = millis(g3)]

StateShowDeparturesHeaderApi(g) ==
  LET g1 == setFont(clearScreen(g), FONT_SYSTEM_5X7)
      g2 == drawBitmap(g1, 8, 0)
      g3 == drawString(drawString(g2, 32, 0, "Treni"), 32, 8, "da CF")
      g4 == delay(g3, INFO_HOLD_DURATION)
  IN [g4 EXCEPT !.currentState = STATE_SHOW_DEPARTURES,
                !.stateChangeTimestamp = millis(g4)]

\* Faulty variant: the state changes without flagging the change.
BackToTimeUnflagged(g) ==
  [g EXCEPT !.currentState = STATE_SHOW_TIME, !.stateChangeTimestamp = 0]

\* Return to STATE_SHOW_TIME with a non-zero stateChangeTimestamp.
BackToTime(g) ==
  [g EXCEPT !.currentState = STATE_SHOW_TIME, !.stateChangeTimestamp = 1]

\* Faulty variant: the message is not held.
NoTrainsWithoutHold(g) ==
  LET g1 == drawString(drawString(clearScreen(g), 2, 0, "Nessun"), 2, 8, "treno :(")
  IN BackToTime([g1 EXCEPT !.ev.render = "noTrains"])

\* The empty-list branch of STATE_SHOW_DEPARTURES (NTP-synced, lines 371-380).
NoTrains(g) ==
  LET g1 == drawString(drawString(clearScreen(g), 2, 0, "Nessun"), 2, 8, "treno :(")
  IN BackToTime([delay(g1, INFO_HOLD_DURATION) EXCEPT !.ev.render = "noTrains"])

\* The empty-list branch of the API-synced sketch (lines 253-261).
NoTrainsApi(g) ==
  LET g1 == drawString(clearScreen(g), 2, 0, "Nessun treno")
  IN BackToTime([delay(g1, INFO_HOLD_DURATION) EXCEPT !.ev.render = "noTrains"])

\* Faulty variant: the index is not advanced after the hold.
HoldWithoutAdvance(g) ==
  [delay(g, (INFO_HOLD_DURATION * 3) \div 2)
     EXCEPT !.lastShownTrainIndex = g.currentTrainIndex]

\* delay(INFO_HOLD_DURATION * 1.5); lastShownTrainIndex = currentTrainIndex;
\* currentTrainIndex++;
HoldAndAdvance(g) ==
  [delay(g, (INFO_HOLD_DURATION * 3) \div 2)
     EXCEPT !.lastShownTrainIndex = g.currentTrainIndex,
            !.currentTrainIndex = @ + 1]

\* The first train: shown without animation (lines 390-404).
DirectRender(g, train) ==
  LET g1 == drawString(clearScreen(g), 2, 0, train.destination)
      g2 == drawString(g1, TRAIN_DEP_TIME_X_OFFSET, 8, TimeAndDelay(train))
  IN HoldAndAdvance([g2 EXCEPT !.ev.render = "direct",
                               !.ev.to = g.currentTrainIndex])

\* &departures[lastShownTrainIndex]: an index outside the vector reads
\* whatever the memory holds (`garbage`).
SlideRender(g, train, garbage) ==
  LET i == g.lastShownTrainIndex
      inside == 0 <= i /\ i < Len(g.departures)
      prevTrain == IF inside THEN g.departures[i + 1] ELSE garbage
      g1 == [g EXCEPT !.ev.indexed = @ \cup {i}, !.ev.oob = ~inside,
                      !.ev.render = "slide", !.ev.from = i,
                      !.ev.out = <<prevTrain>>,
                      !.ev.to = g.currentTrainIndex]
  IN HoldAndAdvance(animateTrainSlideUp(g1, <<prevTrain>>, <<train>>))

\* Faulty variant: the index of the last shown entry survives the pass.
DeparturesDoneKeepsLast(g) ==
  [BackToTime(g) EXCEPT !.currentTrainIndex = 0]

\* The last branch of STATE_SHOW_DEPARTURES (lines 421-427).
DeparturesDone(g) ==
  [BackToTime(g) EXCEPT !.currentTrainIndex = 0, !.lastShownTrainIndex = -1]

\* STATE_SHOW_DEPARTURES with a non-empty list (lines 382-427).
ShowTrains(g, garbage) ==
  IF g.currentTrainIndex < Len(g.departures)
  THEN LET g1 == [setFont(g, FONT_SYSTEM_5X7)
                    EXCEPT !.ev.indexed = @ \cup {g.currentTrainIndex}]
           train == g.departures[g.currentTrainIndex + 1]
           g2 == IF g.lastShownTrainIndex = -1 THEN DirectRender(g1, train)
                 ELSE SlideRender(g1, train, garbage)
       IN IF g2.currentTrainIndex >= Len(g2.departures)
          THEN setFont(g2, FONT_ARIAL_14) ELSE g2
  ELSE DeparturesDone(g)

StateShowDepartures(g, garbage) ==
  IF g.departures = <<>> THEN NoTrains(g) ELSE ShowTrains(g, garbage)

StateShowDeparturesApi(g, garbage) ==
  IF g.departures = <<>> THEN NoTrainsApi(g) ELSE ShowTrains(g, garbage)

(***************************************************************************)
(* Inputs of the Wi-Fi connection and of the vector read                   *)
(***************************************************************************)
\* An attempt associates at once, at its last poll, or not at all.
AssocChoices == {0, MAX_POLLS + 1}

ConnectScripts(maxRetries) == [1..maxRetries -> AssocChoices]

\* What a read outside the departures vector may return.
GarbageTrains ==
  {[type |-> "", destination |-> "", departureTime |-> "", delay |-> ""],
   [type |-> "?", destination |-> "?", departureTime |-> "?", delay |-> "?"]}

(***************************************************************************)
(* Initial state: the globals as the sketch initialises them               *)
(***************************************************************************)
\* The globals other than the clock fields before setup() runs.
BootGlobals ==
  /\ epoch = 0
  /\ linkDrops = 0
  /\ lastWiFiCheck = 0
  /\ lastDataFetch = 0
  /\ lastSecondTick = 0
  /\ weatherString = "Loading..."
  /\ stationName = ""
  /\ departures = <<>>
  /\ currentState = STATE_SHOW_TIME
  /\ stateChangeTimestamp = 0
  /\ currentTrainIndex = 0
  /\ lastShownTrainIndex = -1
  /\ enterTime = 0
  /\ firstEntry = TRUE
  /\ lastDisplayedSecond = -1
  /\ currentFont = FONT_ARIAL_14
  /\ currentYOffset = TEXT_Y_POS
  /\ fb = <<>>
  /\ panel = <<>>
  /\ fresh = FALSE
  /\ drawnSecond = -1
  /\ lastLoopFetch = -1
  /\ iterStart = -1
  /\ loopFetches = 0
  /\ pass = NoPass
  /\ ev = NoEv

\* The globals before setup() runs.
Boot ==
  /\ currentHour = 0
  /\ currentMinute = 0
  /\ currentSecond = 0
  /\ BootGlobals

NoCall == [out |-> <<>>, in |-> <<>>]

Init ==
  /\ variant \in {"ntp", "api"}
  /\ pc = "setup"
  /\ now = 0
  /\ loopStart = 0
  /\ call = NoCall
  /\ Boot

(***************************************************************************)
(* setup()                                                                 *)
(***************************************************************************)
\* The end of setup(): stateChangeTimestamp = millis(); loop() runs next.
EndSetup(g) ==
  [g EXCEPT !.stateChangeTimestamp = millis(g), !.loopStart = millis(g),
            !.fresh = TRUE]

\* setup() of the NTP-synced sketch after the Wi-Fi connection (lines 204-256).
SetupRest(g, in) ==
  LET g1 == delay(clearScreen(g), 100)
      g2 == [delay(g1, 1000 * NtpWait) EXCEPT !.epoch = BootTimeOfDay]
  IN EndSetup(fetchData(UpdateClock(g2), in))

SetupNtp ==
  /\ variant = "ntp"
  /\ pc = "setup"
  /\ \E script \in ConnectScripts(3), in \in FetchInputs :
       LET g0 == delay([Cur EXCEPT !.ev.op = "setup"], 1000)
           c == connectToWiFiRobust(g0, 3, script)
       IN IF c.ok
          THEN /\ Install(SetupRest(c.g, in))
               /\ pc' = "wifiCheck"
          ELSE /\ Install([delay(c.g, 10000) EXCEPT !.ev.op = "restart"])
               /\ pc' = "restarted"
  /\ UNCHANGED <<variant, call>>

\* setup() of the API-synced sketch (main.cpp lines 116-165); the connection
\* wait loop polls once.
SetupApi ==
  /\ variant = "api"
  /\ pc = "setup"
  /\ \E in \in {i \in FetchInputs : i.link /\ i.beginOk} :
       LET g0 == setFont(clearScreen([Cur EXCEPT !.ev.op = "setup"]), FONT_ARIAL_14)
           g1 == delay(clearScreen(delay(g0, 500)), 1000)
       IN Install(EndSetup(fetchDataApi(g1, in)))
  /\ pc' = "fetchCheck"
  /\ UNCHANGED <<variant, call>>

(***************************************************************************)
(* loop()                                                                  *)
(***************************************************************************)
\* The run is followed for MaxRun ms of loop().
InRun == now - loopStart <= MaxRun

\* Faulty variant: a successful reconnect restarts the display cycle and the
\* fetch schedule.
LinkCheckResetsCycle(g, up, script) ==
  IF Elapsed(g, g.lastWiFiCheck) > WIFI_CHECK_INTERVAL
  THEN IF ~up
       THEN LET c == connectToWiFiRobust([g EXCEPT !.linkDrops = @ + 1], 2, script)
            IN IF c.ok
               THEN <<[c.g EXCEPT !.lastWiFiCheck = millis(c.g),
                                  !.lastDataFetch = millis(c.g),
                                  !.currentState = STATE_SHOW_TIME,
                                  !.currentTrainIndex = 0], FALSE>>
               ELSE <<[delay(c.g, 5000) EXCEPT !.ev.op = "restart"], TRUE>>
       ELSE <<[g EXCEPT !.lastWiFiCheck = millis(g)], FALSE>>
  ELSE <<g, FALSE>>

\* Faulty variant: the link is read once a minute.
LinkCheckEveryMinute(g, up, script) ==
  IF Elapsed(g, g.lastWiFiCheck) > 2 * WIFI_CHECK_INTERVAL
  THEN IF ~up
       THEN LET c == connectToWiFiRobust([g EXCEPT !.linkDrops = @ + 1], 2, script)
            IN IF c.ok
               THEN <<[c.g EXCEPT !.lastWiFiCheck = millis(c.g)], FALSE>>
               ELSE <<[delay(c.g, 5000) EXCEPT !.ev.op = "restart"], TRUE>>
       ELSE <<[g EXCEPT !.lastWiFiCheck = millis(g)], FALSE>>
  ELSE <<g, FALSE>>

\* Link check of loop() (lines 263-275).  `up` is what WiFi.status() reads.
\* The result is <<record, restarted>>.
LinkCheck(g, up, script) ==
  IF Elapsed(g, g.lastWiFiCheck) > WIFI_CHECK_INTERVAL
  THEN IF ~up
       THEN LET c == connectToWiFiRobust([g EXCEPT !.linkDrops = @ + 1], 2, script)
            IN IF c.ok
               THEN <<[c.g EXCEPT !.lastWiFiCheck = millis(c.g)], FALSE>>
               ELSE <<[delay(c.g, 5000) EXCEPT !.ev.op = "restart"], TRUE>>
       ELSE <<[g EXCEPT !.lastWiFiCheck = millis(g)], FALSE>>
  ELSE <<g, FALSE>>

\* The last time at which the link supervisor knows the link was up: its
\* previous check, or the end of setup().
LastSeenUp == IF lastWiFiCheck > loopStart THEN lastWiFiCheck ELSE loopStart

\* When a link that the check finds down may have been lost: right after it
\* was last seen up, at the start of the previous iteration of loop(), or just
\* now.
LossTimes == {LastSeenUp, now} \cup {t \in {iterStart} : t >= LastSeenUp}

\* Start of an iteration of loop(): the link check.  `lostAt` is the time at
\* which the link was lost when the check finds it down.
WiFiCheck ==
  /\ variant = "ntp"
  /\ pc = "wifiCheck"
  /\ InRun
  /\ \E up \in BOOLEAN, script \in ConnectScripts(2), lostAt \in LossTimes :
       /\ ~up => linkDrops < MaxLinkDrops /\ now - loopStart <= LinkDropWindow
       /\ LET r == LinkCheck([Cur EXCEPT !.ev.op = "wifi", !.iterStart = now],
                             up, script)
              found == r[1].ev.attempts > 0
          IN /\ Install([r[1] EXCEPT !.ev.lostAt = IF found THEN lostAt ELSE @])
             /\ pc' = IF r[2] THEN "restarted" ELSE "fetchCheck"
  /\ UNCHANGED <<variant, call>>

\* if (millis() - lastDataFetch >= fetchInterval) { fetchData(); }
FetchDue(g) == Elapsed(g, g.lastDataFetch) >= fetchInterval

FetchCheck ==
  /\ pc = "fetchCheck"
  /\ variant = "api" => InRun
  /\ \E in \in FetchInputs :
       LET g0 == [Cur EXCEPT !.ev.op = "fetch"]
       IN IF FetchDue(g0)
          THEN LET g1 == [g0 EXCEPT !.lastLoopFetch = millis(g0),
                                    !.loopFetches = @ + 1]
               IN /\ loopFetches < MaxLoopFetches
                  /\ IF variant = "ntp" THEN Install(fetchData(g1, in))
                     ELSE in.link /\ in.beginOk /\ Install(fetchDataApi(g1, in))
          ELSE Install(g0)
  /\ pc' = "tick"
  /\ UNCHANGED <<variant, call>>

\* The departures pass and the ShowTime entry, as seen from outside.
Observe(g0, g1) ==
  LET p0 == IF g0.pass.active THEN g0.pass
            ELSE [NoPass EXCEPT !.active = TRUE, !.n = Len(g0.departures)]
      shown == g1.ev.render \in {"direct", "slide"}
      leaving == g1.currentState = STATE_SHOW_TIME
  IN [g1 EXCEPT
        !.fresh = g0.currentState # STATE_SHOW_TIME /\ leaving,
        !.pass = IF g0.currentState = STATE_SHOW_DEPARTURES
                 THEN [p0 EXCEPT !.active = ~leaving, !.done = leaving,
                                 !.log = IF shown
                                         THEN Append(@, <<g1.ev.render, g1.ev.from,
                                                          g1.ev.to>>)
                                         ELSE @,
                                 !.last = IF shown
                                          THEN <<g0.departures[g1.ev.to + 1]>>
                                          ELSE @]
                 ELSE IF g0.currentState = STATE_SHOW_WEATHER THEN NoPass
                 ELSE g0.pass]

\* The clock update of the variant, then the state of the display at the
\* start of the tick.
TickStart ==
  LET g == IF variant = "ntp" THEN UpdateClock(Cur) ELSE ClockTickApi(Cur)
  IN [g EXCEPT !.ev.op = "tick", !.ev.state = g.currentState]

\* loop() returns and is called again.
LoopReturn(g0, g1) == busy(Observe(g0, g1), LoopMs)

NextPc == IF variant = "ntp" THEN "wifiCheck" ELSE "fetchCheck"

TickShowTime ==
  /\ pc = "tick"
  /\ currentState = STATE_SHOW_TIME
  /\ LET g0 == TickStart
     IN Install(LoopReturn(g0, IF variant = "ntp" THEN StateShowTime(g0)
                               ELSE StateShowTimeApi(g0)))
  /\ pc' = NextPc
  /\ UNCHANGED <<variant, call>>

TickShowWeather ==
  /\ pc = "tick"
  /\ currentState = STATE_SHOW_WEATHER
  /\ LET g0 == TickStart
     IN Install(LoopReturn(g0, IF variant = "ntp" THEN StateShowWeather(g0)
                               ELSE StateShowWeatherApi(g0)))
  /\ pc' = NextPc
  /\ UNCHANGED <<variant, call>>

TickShowDeparturesHeader ==
  /\ pc = "tick"
  /\ currentState = STATE_SHOW_DEPARTURES_HEADER
  /\ LET g0 == TickStart
     IN Install(LoopReturn(g0, IF variant = "ntp" THEN StateShowDeparturesHeader(g0)
                               ELSE StateShowDeparturesHeaderApi(g0)))
  /\ pc' = NextPc
  /\ UNCHANGED <<variant, call>>

TickShowDepartures ==
  /\ pc = "tick"
  /\ currentState = STATE_SHOW_DEPARTURES
  /\ \E garbage \in GarbageTrains :
       LET g0 == TickStart
       IN Install(LoopReturn(g0, IF variant = "ntp" THEN StateShowDepartures(g0, garbage)
                                 ELSE StateShowDeparturesApi(g0, garbage)))
  /\ pc' = NextPc
  /\ UNCHANGED <<variant, call>>

Next ==
  \/ SetupNtp
  \/ SetupApi
  \/ WiFiCheck
  \/ FetchCheck
  \/ TickShowTime
  \/ TickShowWeather
  \/ TickShowDeparturesHeader
  \/ TickShowDepartures

Spec == Init /\ [][Next]_vars

(***************************************************************************)
(* animateTrainSlideUp on its own: the two records are drawn at the start  *)
(* and the function is applied once.                                       *)
(***************************************************************************)
AnimTrains ==
  {ParseDepartures(Window(2, 0), <<>>)[i] : i \in 1..2}
    \cup {RawTrainA, RawTrainB} \cup GarbageTrains

AnimPointers == {<<>>} \cup {<<t>> : t \in AnimTrains}

InitAnim ==
  /\ variant = "ntp"
  /\ pc = "anim"
  /\ now \in {0, 1000}
  /\ loopStart = now
  /\ call \in [out : AnimPointers, in : AnimPointers]
  /\ Boot

AnimCall ==
  /\ pc = "anim"
  /\ Install(animateTrainSlideUp([Cur EXCEPT !.ev.op = "anim"], call.out, call.in))
  /\ pc' = "animDone"
  /\ UNCHANGED <<variant, call>>

NextAnim == AnimCall

SpecAnim == InitAnim /\ [][NextAnim]_vars

(***************************************************************************)
(* The refresh timer: triggerScan() runs from the hardware timer between   *)
(* any two steps of the main thread, once setup() has started the alarm.   *)
(* SpecScan follows the first ScanRun ms of loop() with the refresh        *)
(* interleaved.                                                            *)
(***************************************************************************)
\* Faulty variant: the scan blanks the buffer it has shifted out.
triggerScanBlanks(g) == [g EXCEPT !.panel = g.fb, !.fb = <<>>]

\* void IRAM_ATTR triggerScan() { dmd.scanDisplayBySPI(); }: the panel is
\* repainted from the buffer as it is at that moment.
triggerScan(g) == [g EXCEPT !.panel = g.fb]

TriggerScan ==
  /\ pc \in {"wifiCheck", "fetchCheck", "tick"}
  /\ Install(triggerScan([Cur EXCEPT !.ev = ev]))
  /\ UNCHANGED <<variant, pc, call>>

ScanInRun == now - loopStart <= ScanRun

NextScan ==
  \/ ScanInRun /\ SetupNtp
  \/ ScanInRun /\ SetupApi
  \/ ScanInRun /\ WiFiCheck
  \/ ScanInRun /\ FetchCheck
  \/ ScanInRun /\ TickShowTime
  \/ ScanInRun /\ TickShowWeather
  \/ ScanInRun /\ TickShowDeparturesHeader
  \/ ScanInRun /\ TickShowDepartures
  \/ TriggerScan

SpecScan == Init /\ [][NextScan]_vars

(***************************************************************************)
(* The time string on its own: SpecTime draws the clock fields from every  *)
(* time of day and applies the redraw block of STATE_SHOW_TIME once.       *)
(***************************************************************************)
InitTime ==
  /\ variant \in {"ntp", "api"}
  /\ pc = "time"
  /\ now = 0
  /\ loopStart = 0
  /\ call = NoCall
  /\ currentHour \in 0..23
  /\ currentMinute \in 0..59
  /\ currentSecond \in 0..59
  /\ BootGlobals

TimeDraw ==
  /\ pc = "time"
  /\ Install(ShowTimeRedraw([Cur EXCEPT !.ev.op = "time"],
                            IF variant = "ntp" THEN 10 ELSE 11))
  /\ pc' = "timeDone"
  /\ UNCHANGED <<variant, call>>

NextTime == TimeDraw

SpecTime == InitTime /\ [][NextTime]_vars

(***************************************************************************)
(* connectToWiFiRobust on its own: SpecWiFi draws maxRetries and, for each *)
(* attempt, the poll from which the link reads connected, and calls the    *)
(* function once.                                                          *)
(***************************************************************************)
\* At once, after one poll, at the last poll, or not within the attempt.
WiFiAssocChoices == {0, 1, MAX_POLLS, MAX_POLLS + 1}

WiFiCalls ==
  UNION {{[maxRetries |-> n, script |-> sc] : sc \in [1..n -> WiFiAssocChoices]} :
           n \in 0..MaxRetriesArg}

InitWiFi ==
  /\ variant = "ntp"
  /\ pc = "connect"
  /\ now = 0
  /\ loopStart = 0
  /\ call \in WiFiCalls
  /\ Boot

ConnectCall ==
  /\ pc = "connect"
  /\ LET c == connectToWiFiRobust([Cur EXCEPT !.ev.op = "connect"],
                                  call.maxRetries, call.script)
     IN /\ Install(c.g)
        /\ pc' = IF c.ok THEN "connected" ELSE "notConnected"
  /\ UNCHANGED <<variant, call>>

NextWiFi == ConnectCall

SpecWiFi == InitWiFi /\ [][NextWiFi]_vars

(***************************************************************************)
(* displayScrollingText step by step: SpecScroll runs the loop of the      *)
(* NTP-synced sketch one read of millis() at a time.  `call` holds the     *)
(* arguments and the locals: the column of the text, timer and ret.        *)
(***************************************************************************)
ScrollTexts == {"", "Hi"}

ScrollLefts == {32 * DISPLAYS_ACROSS, 0}

\* Faulty variant: a step is made as soon as 35 ms have passed.
StepDueAt35(g, timer) == Elapsed(g, timer) >= MARQUEE_STEP_MS

\* if ((millis() - timer) > 35)
StepDue(g, timer) == Elapsed(g, timer) > MARQUEE_STEP_MS

\* dmd.stepMarquee(-1, 0): the text moves one column to the left; the result
\* is true once the text has left the panel.
stepMarquee(x, width) == [x |-> x - 1, ret |-> x - 1 < -width]

InitScroll ==
  /\ variant = "ntp"
  /\ pc = "scroll"
  /\ now = 0
  /\ loopStart = 0
  /\ call \in {[text |-> t, left |-> l, top |-> -1, x |-> l, timer |-> 0,
                 ret |-> FALSE] : t \in ScrollTexts, l \in ScrollLefts}
  /\ Boot

\* dmd.clearScreen(true); delay(10); dmd.drawMarquee(...); timer = millis();
ScrollBegin ==
  /\ pc = "scroll"
  /\ LET yPos == IF call.top = -1 THEN currentYOffset ELSE call.top
         g1 == delay(clearScreen([Cur EXCEPT !.ev.op = "scroll"]), 10)
         g2 == [g1 EXCEPT !.fb = Append(@, MarqueeItem(g1, call.text, call.left, yPos)),
                          !.ev.marquee = call.text]
     IN /\ Install(g2)
        /\ call' = [call EXCEPT !.timer = millis(g2)]
  /\ pc' = "scrollLoop"
  /\ UNCHANGED variant

\* An iteration of while (!ret) that finds the step not due: time passes
\* until millis() is read again.
ScrollSpin ==
  /\ pc = "scrollLoop"
  /\ ~call.ret
  /\ ~StepDue(Cur, call.timer)
  /\ \E dt \in {1, ScrollJitter} :
       /\ dt = 1 \/ Elapsed(Cur, call.timer) = MARQUEE_STEP_MS
       /\ Install(busy([Cur EXCEPT !.ev = ev], dt))
  /\ UNCHANGED <<variant, pc, call>>

\* ret = dmd.stepMarquee(-1, 0); timer = millis();  The library clears the
\* screen when the step reports true.
ScrollStep ==
  /\ pc = "scrollLoop"
  /\ ~call.ret
  /\ StepDue(Cur, call.timer)
  /\ LET m == stepMarquee(call.x, MarqueeWidth(call.text))
         g == [Cur EXCEPT !.ev = ev]
     IN /\ Install([g EXCEPT !.fb = IF m.ret THEN <<>>
                                    ELSE [i \in 1..Len(@) |->
                                            IF @[i].k = "marquee"
                                            THEN [@[i] EXCEPT !.x = m.x] ELSE @[i]],
                             !.ev.steps = @ + 1])
        /\ call' = [call EXCEPT !.x = m.x, !.ret = m.ret, !.timer = millis(g)]
  /\ UNCHANGED <<variant, pc>>

\* The loop ends; dmd.clearScreen(true); return.
ScrollEnd ==
  /\ pc = "scrollLoop"
  /\ call.ret
  /\ Install(clearScreen([Cur EXCEPT !.ev = ev]))
  /\ pc' = "scrollDone"
  /\ UNCHANGED <<variant, call>>

NextScroll ==
  \/ ScrollBegin
  \/ ScrollSpin
  \/ ScrollStep
  \/ ScrollEnd

\* loop() runs alone on its core: the busy loop keeps iterating.
SpecScroll == InitScroll /\ [][NextScroll]_vars /\ WF_vars(NextScroll)

(***************************************************************************)
(* The elapsed-time tests in 32-bit arithmetic.  millis() and the stored   *)
(* timestamps are unsigned long, 32 bits wide on the ESP; a value is kept  *)
(* as two 16-bit halves [hi, lo] so that sums and differences are taken    *)
(* modulo 2^32 exactly.  SpecWrap draws the timestamp a test has stored    *)
(* and the time that has really passed since, and applies the test to the  *)
(* value millis() then has.                                                *)
(***************************************************************************)
\* 2^16: an unsigned long is two halves of this size.
HalfWord == 65536

\* The unsigned long with the value n, 0 <= n < 2^31.
U32(n) == [hi |-> n \div HalfWord, lo |-> n % HalfWord]

\* a + b in unsigned long: the carry out of the upper half is lost.
Add32(a, b) ==
  LET lo == a.lo + b.lo
  IN [hi |-> (a.hi + b.hi + lo \div HalfWord) % HalfWord, lo |-> lo % HalfWord]

\* a - b in unsigned long: a borrow out of the upper half is lost.
Sub32(a, b) ==
  LET lo == a.lo - b.lo
  IN [hi |-> (a.hi - b.hi - (IF lo < 0 THEN 1 ELSE 0)) % HalfWord,
      lo |-> lo % HalfWord]

\* a < b for unsigned long.
Lt32(a, b) == a.hi < b.hi \/ (a.hi = b.hi /\ a.lo < b.lo)

\* long x = <unsigned long>: the same 32 bits read as a signed value, the
\* upper half then being in -2^15 .. 2^15 - 1.
AsLong(u) ==
  [hi |-> IF 2 * u.hi >= HalfWord THEN u.hi - HalfWord ELSE u.hi, lo |-> u.lo]

\* The usual arithmetic conversion of a long operand to unsigned long.
AsUnsigned(l) == [hi |-> l.hi % HalfWord, lo |-> l.lo]

\* Faulty variant: the deadline lastDataFetch + fetchInterval is compared
\* with millis().
FetchDueByDeadline(m, since) ==
  ~Lt32(m, Add32(since, AsUnsigned(U32(fetchInterval))))

\* if (millis() - lastDataFetch >= fetchInterval), fetchInterval a const long
\* converted to unsigned long; m is the value millis() returns and
\* `since` the stored timestamp.
FetchDue32(m, since) ==
  ~Lt32(Sub32(m, since), AsUnsigned(U32(fetchInterval)))

\* if (millis() - lastWiFiCheck > 30000)
LinkCheckDue32(m, since) ==
  Lt32(U32(WIFI_CHECK_INTERVAL), Sub32(m, since))

\* if (millis() - enterTime > TIME_DISPLAY_DURATION)
ShowTimeOver32(m, since) ==
  Lt32(U32(TIME_DISPLAY_DURATION), Sub32(m, since))

\* if ((millis() - timer) > 35), timer a long.
StepDue32(m, since) ==
  Lt32(U32(MARQUEE_STEP_MS), Sub32(m, AsUnsigned(since)))

\* How far below 2^32 (or above 0) a stored timestamp lies.
WrapMargins ==
  {0, 1, MARQUEE_STEP_MS, TIME_DISPLAY_DURATION, WIFI_CHECK_INTERVAL + 1,
   fetchInterval, 2 * fetchInterval}

\* Timestamps: shortly after boot, and shortly before millis() wraps.
WrapStamps ==
  {U32(k) : k \in WrapMargins} \cup {Sub32(U32(0), U32(k)) : k \in WrapMargins}

\* Times that really pass between storing the timestamp and the test: around
\* each threshold, 2^31, and the longest below 2^32.
WrapElapsed ==
  {U32(e + d) : e \in {MARQUEE_STEP_MS, TIME_DISPLAY_DURATION,
                       WIFI_CHECK_INTERVAL, fetchInterval},
                d \in {-1, 0, 1}}
    \cup {U32(0), U32(1), [hi |-> HalfWord \div 2, lo |-> 0],
          Sub32(U32(0), U32(1)), Sub32(U32(0), U32(fetchInterval))}

WrapTests == {"link", "fetch", "showTime", "marquee"}

InitWrap ==
  /\ variant = "ntp"
  /\ pc = "stamped"
  /\ now = 0
  /\ loopStart = 0
  /\ call \in [test : WrapTests, stamp : WrapStamps, elapsed : WrapElapsed,
               m : {U32(0)}, due : {FALSE}]
  /\ Boot

\* The test reads millis(), which is the timestamp plus the time passed,
\* modulo 2^32, and `due` takes the outcome of the comparison.
WrapTested(test, due) ==
  /\ pc = "stamped"
  /\ call.test = test
  /\ pc' = "tested"
  /\ call' = [call EXCEPT !.m = Add32(call.stamp, call.elapsed), !.due = due]
  /\ UNCHANGED <<variant, progVars>>

WrapLinkCheck ==
  WrapTested("link", LinkCheckDue32(Add32(call.stamp, call.elapsed), call.stamp))

WrapFetchCheck ==
  WrapTested("fetch", FetchDue32(Add32(call.stamp, call.elapsed), call.stamp))

WrapShowTimeExit ==
  WrapTested("showTime", ShowTimeOver32(Add32(call.stamp, call.elapsed), call.stamp))

\* long timer = millis();  ...  if ((millis() - timer) > 35)
WrapMarqueeStep ==
  WrapTested("marquee",
             StepDue32(Add32(call.stamp, call.elapsed), AsLong(call.stamp)))

NextWrap ==
  \/ WrapLinkCheck
  \/ WrapFetchCheck
  \/ WrapShowTimeExit
  \/ WrapMarqueeStep

SpecWrap == InitWrap /\ [][NextWrap]_vars

(***************************************************************************)
(* Properties                                                              *)
(***************************************************************************)
\* The step is a call of fetchData that got HTTP 200 and a payload that does
\* not deserialize.
JsonFailure ==
  ev'.fetched /\ ev'.link /\ ev'.beginOk /\ ev'.code = HTTP_CODE_OK /\ ~ev'.valid

\* C1: in fetchData of either sketch, an HTTP 200 answer whose payload fails
\* JSON deserialization sets weatherString to "JSON Error" and leaves the
\* departures list exactly as it was before the call.
C1_JsonErrorKeepsDepartures ==
  [][JsonFailure => weatherString' = "JSON Error" /\ departures' = departures]_vars

\* The placeholder of the failure a call of fetchData met, "" when it met none
\* of the four: link down, http.begin failure, GET result <= 0, status # 200.
FailurePlaceholder(link, beginOk, code) ==
  IF ~link THEN "WiFi Down"
  ELSE IF ~beginOk THEN "DNS Error"
  ELSE IF code <= 0 THEN "Connection Failed"
  ELSE IF code # HTTP_CODE_OK THEN "HTTP Error " \o ToString(code)
  ELSE ""

FailureInputs == {in \in FetchInputs : FailurePlaceholder(in.link, in.beginOk, in.httpCode) # ""}

FailureClass(in) ==
  IF ~in.link THEN "link" ELSE IF ~in.beginOk THEN "begin"
  ELSE IF in.httpCode <= 0 THEN "transport" ELSE "status"

\* C2: in fetchData of the NTP-synced sketch, each of the failures link down,
\* http.begin failure, status other than 200 and transport failure (GET <= 0,
\* the 15 s timeout included) leaves departures and stationName unchanged and
\* sets weatherString to the placeholder of that failure; the placeholders of
\* different failures differ.
C2_FailureKeepsSnapshot ==
  [][(variant = "ntp" /\ ev'.fetched
        /\ FailurePlaceholder(ev'.link, ev'.beginOk, ev'.code) # "")
     => /\ departures' = departures
        /\ stationName' = stationName
        /\ weatherString' = FailurePlaceholder(ev'.link, ev'.beginOk, ev'.code)
        /\ \A i, j \in FailureInputs :
             FailureClass(i) # FailureClass(j)
               => fetchData(Cur, i).weatherString # fetchData(Cur, j).weatherString]_vars

\* A call of fetchData from loop() timed out after 15 s while a named station
\* and its departures were on record, and they still are.
C2_Witness ==
  /\ variant = "ntp" /\ ev.op = "fetch" /\ ev.fetched
  /\ ev.link /\ ev.beginOk /\ ev.code = HTTPC_ERROR_READ_TIMEOUT
  /\ ev.delayed = HTTP_TIMEOUT
  /\ weatherString = "Connection Failed"
  /\ departures # <<>> /\ stationName = "Modena"

\* The renders of a pass over n departures: index 0 directly, then the
\* slide-ups 0 -> 1, ..., n-2 -> n-1.
ExpectedPass(n) ==
  [k \in 1..n |-> IF k = 1 THEN <<"direct", -1, 0>> ELSE <<"slide", k - 2, k - 1>>]

\* C3: every pass through ShowDepartures over a list of N >= 1 departures
\* makes exactly one direct render, of index 0, then N-1 slide-ups from index
\* i to i+1 in increasing order, and then returns to ShowTime.
C3_PassRenders ==
  (pass.done /\ pass.n >= 1 /\ ~pass.replaced) => pass.log = ExpectedPass(pass.n)

\* C4: on every transition ShowDeparturesHeader -> ShowDepartures,
\* currentTrainIndex is 0 and lastShownTrainIndex is -1, whatever replacements
\* of the list happened before.
C4_IndexResetOnEntry ==
  [][(currentState = STATE_SHOW_DEPARTURES_HEADER
        /\ currentState' = STATE_SHOW_DEPARTURES)
     => currentTrainIndex' = 0 /\ lastShownTrainIndex' = -1]_vars

\* C5: any two consecutive calls of fetchData from loop() are at least
\* 300000 ms apart, whether the earlier one succeeded or failed.
C5_FetchInterval ==
  [][(ev'.op = "fetch" /\ ev'.fetched /\ lastLoopFetch # -1)
     => lastLoopFetch' - lastLoopFetch >= 300000]_vars

StrictCycle ==
  {<<STATE_SHOW_TIME, STATE_SHOW_WEATHER>>,
   <<STATE_SHOW_WEATHER, STATE_SHOW_DEPARTURES_HEADER>>,
   <<STATE_SHOW_DEPARTURES_HEADER, STATE_SHOW_DEPARTURES>>,
   <<STATE_SHOW_DEPARTURES, STATE_SHOW_TIME>>}

\* C6: the only changes of the display state are ShowTime -> ShowWeather,
\* ShowWeather -> ShowDeparturesHeader, ShowDeparturesHeader -> ShowDepartures
\* and ShowDepartures -> ShowTime.
C6_StrictCycle ==
  [][currentState' # currentState => <<currentState, currentState'>> \in StrictCycle]_vars

\* A pass over a non-empty list has just ended: the display went through the
\* whole cycle and is back in ShowTime.
C6_Witness ==
  /\ ev.op = "tick" /\ ev.state = STATE_SHOW_DEPARTURES
  /\ currentState = STATE_SHOW_TIME
  /\ pass.done /\ pass.n >= 2 /\ Len(pass.log) = pass.n

\* What is on the panel: position and text of every item drawn since the last
\* clearScreen.
Shown(buf) == [i \in 1..Len(buf) |-> <<buf[i].x, buf[i].y, buf[i].s>>]

NoTrainsMessage ==
  IF variant = "ntp" THEN <<<<2, 0, "Nessun">>, <<2, 8, "treno :(">>>>
  ELSE <<<<2, 0, "Nessun treno">>>>

\* C7: a tick that runs in ShowDepartures with an empty list renders the
\* no-trains message, holds once for 2500 ms, sets the state to ShowTime in
\* that same tick and makes no indexed access to the list.
C7_EmptyListShortcut ==
  [][(pc = "tick" /\ currentState = STATE_SHOW_DEPARTURES /\ departures = <<>>)
     => /\ Shown(fb') = NoTrainsMessage
        /\ ev'.cleared
        /\ ev'.delayed = 2500
        /\ now' - now = 2500 + LoopMs
        /\ currentState' = STATE_SHOW_TIME
        /\ ev'.indexed = {} /\ ~ev'.oob]_vars

\* The NTP-synced sketch has just shown the no-trains message.
C7_Witness ==
  /\ variant = "ntp" /\ ev.op = "tick" /\ ev.state = STATE_SHOW_DEPARTURES
  /\ ev.render = "noTrains" /\ departures = <<>>
  /\ currentState = STATE_SHOW_TIME

\* C8: in the NTP-synced sketch the entry actions of ShowTime (entry time
\* recorded, screen cleared, large font selected, redraw forced) run on the
\* first tick after each transition into ShowTime, the initial state after
\* setup included, and on no other tick.
C8_EntryOncePerTransition ==
  [][(variant = "ntp" /\ pc = "tick")
     => /\ ev'.entry <=> (currentState = STATE_SHOW_TIME /\ fresh)
        /\ ev'.entry => /\ enterTime' = now
                        /\ ev'.cleared
                        /\ currentFont' = FONT_ARIAL_14
                        /\ ev'.redraw
                        /\ stateChangeTimestamp' = 0 \/ currentState' # STATE_SHOW_TIME
        /\ ~ev'.entry => enterTime' = enterTime]_vars

\* ShowTime has been entered again after a pass over the departures, and the
\* entry actions have just run.
C8_Witness ==
  /\ variant = "ntp" /\ ev.op = "tick" /\ ev.state = STATE_SHOW_TIME /\ ev.entry
  /\ pass.done /\ pass.n >= 1
  /\ enterTime > loopStart + TIME_DISPLAY_DURATION

\* C9: in ShowTime, after the redraw forced on entry, a tick redraws the time
\* string if and only if currentSecond differs from the second last drawn.
C9_RedrawIffSecondChanged ==
  [][(variant = "ntp" /\ pc = "tick" /\ currentState = STATE_SHOW_TIME /\ ~fresh)
     => (ev'.redraw <=> currentSecond' # drawnSecond)]_vars

\* A tick in ShowTime found the second that is already on the panel and drew
\* nothing.
C9_Witness ==
  /\ variant = "ntp" /\ ev.op = "tick" /\ ev.state = STATE_SHOW_TIME
  /\ ~ev.entry /\ ~ev.redraw /\ currentSecond = drawnSecond
  /\ currentState = STATE_SHOW_TIME

\* C10 as stated: every call of animateTrainSlideUp draws exactly 16 frames,
\* each followed by a 20 ms delay, and so blocks for 320 ms.
C10_SixteenFrames ==
  pc = "animDone" => ev.frames = 16 /\ ev.delayed = 320 /\ now - loopStart = 320

\* C10, amended: every call of animateTrainSlideUp draws exactly 17 frames
\* (y = 0 .. 16), each followed by a 20 ms delay, and so blocks for 340 ms
\* whatever the two records contain.
C10_SeventeenFrames ==
  pc = "animDone"
    => /\ ev.frames = 17 /\ Len(ev.frameLog) = 17
       /\ ev.delayed = 17 * 20
       /\ now - loopStart = 340

\* The call had two records with text to draw and has returned.
C10_Witness ==
  /\ pc = "animDone" /\ call.out # <<>> /\ call.in # <<>>
  /\ call.out[1].destination # "" /\ call.in[1].destination # ""
  /\ ev.frames = 17 /\ fb # <<>>

\* The lines a record has to show in the frame y, as <<column, row, text>>,
\* when its first line is at row `top`: none for a null pointer or a record
\* without destination, else those with -8 < row < 16.
VisibleLines(ptr, top) ==
  IF ptr = <<>> \/ ptr[1].destination = "" THEN {}
  ELSE {l \in {<<2, top, ptr[1].destination>>,
               <<TRAIN_DEP_TIME_X_OFFSET, top + 8,
                 ptr[1].departureTime \o " " \o ptr[1].delay>>} :
          -8 < l[2] /\ l[2] < 16}

DrawnLines(frame) == {<<frame[i].x, frame[i].y, frame[i].s>> : i \in 1..Len(frame)}

\* C11: in every frame of animateTrainSlideUp each text line drawn has a top
\* row y with -8 < y < 16; a line whose row would be <= -8 or >= 16 is
\* skipped, so the frame y holds exactly the lines of the two records that
\* fall in the band.
C11_RowsClipped ==
  pc = "animDone"
    => \A k \in 1..Len(ev.frameLog) :
         /\ \A i \in 1..Len(ev.frameLog[k]) :
              -8 < ev.frameLog[k][i].y /\ ev.frameLog[k][i].y < 16
         /\ DrawnLines(ev.frameLog[k])
              = VisibleLines(call.out, 0 - (k - 1))
                  \cup VisibleLines(call.in, 16 - (k - 1))

\* Two records with text were animated; in the frame y = 8 the first line of
\* the outgoing record (row -8) and the second line of the incoming one
\* (row 16) are outside the band, and only two lines were drawn.
C11_Witness ==
  /\ pc = "animDone"
  /\ call.out # <<>> /\ call.in # <<>>
  /\ call.out[1].destination # "" /\ call.in[1].destination # ""
  /\ Len(ev.frameLog) >= 9
  /\ Len(ev.frameLog[9]) = 2
  /\ Len(ev.frameLog[5]) = 3

\* The step is a call of fetchData that got HTTP 200 and well-formed JSON.
FetchSuccess ==
  ev'.fetched /\ ev'.link /\ ev'.beginOk /\ ev'.code = HTTP_CODE_OK /\ ev'.valid

\* C12: after a successful fetch the departures list consists of exactly the
\* records of the response's departures array, in the response's order, no
\* record of the previous snapshot remaining, each destination being the
\* response's destination prefixed with "-> ".
C12_ListReplacedWholesale ==
  [][FetchSuccess
     => /\ Len(departures') = Len(ev'.array)
        /\ \A i \in 1..Len(ev'.array) :
             /\ departures'[i].destination = "-> " \o ev'.array[i].destination
             /\ departures'[i].type = ev'.array[i].type
             /\ departures'[i].departureTime = ev'.array[i].departureTime
             /\ departures'[i].delay = ev'.array[i].delay]_vars

\* A fetch from loop() has replaced a list of three departures by the single
\* record of the response.
C12_Witness ==
  /\ ev.op = "fetch" /\ ev.fetched /\ ev.code = HTTP_CODE_OK /\ ev.valid
  /\ ev.sizeBefore = 3 /\ Len(ev.array) = 1
  /\ Len(departures) = 1
  /\ departures[1].destination = "-> " \o ev.array[1].destination

\* C13: the device restarts only after connectToWiFiRobust has returned
\* false, that is after 3 consecutive failed attempts at startup or 2
\* consecutive failed attempts started by the link check of loop(); no fetch
\* failure of any kind leads to a restart.
C13_RestartOnlyAfterRetries ==
  [][
      /\ (pc # "restarted" /\ pc' = "restarted")
          => /\ variant = "ntp"
             /\ ev'.op = "restart"
             /\ \/ pc = "setup" /\ ev'.attempts = 3
                \/ pc = "wifiCheck" /\ ev'.attempts = 2
             /\ ev'.polls = ev'.attempts * 40
             /\ ~ev'.fetched
      /\ ev'.fetched => pc' # "restarted"
      /\ pc = "fetchCheck" => pc' # "restarted"
    ]_vars

\* The link check of loop() found the link down, both attempts failed and the
\* device has restarted.
C13_Witness ==
  /\ pc = "restarted" /\ ev.op = "restart"
  /\ ev.attempts = 2 /\ ev.polls = 80
  /\ loopStart > 0 /\ linkDrops = 1

\* C14: a reconnect that succeeds from the link check of loop() makes at most
\* 2 attempts and leaves currentState, stateChangeTimestamp, currentTrainIndex,
\* lastShownTrainIndex, the departures list and lastDataFetch unchanged.
C14_ReconnectKeepsCycle ==
  [][(pc = "wifiCheck" /\ ev'.attempts > 0 /\ pc' # "restarted")
     => /\ ev'.attempts <= 2
        /\ pc' = "fetchCheck"
        /\ UNCHANGED <<currentState, stateChangeTimestamp, currentTrainIndex,
                       lastShownTrainIndex, departures, lastDataFetch>>]_vars

\* The link was found down in the middle of a pass over the departures and
\* came back at the second attempt.
C14_Witness ==
  /\ pc = "fetchCheck" /\ ev.op = "wifi" /\ ev.attempts = 2
  /\ currentState = STATE_SHOW_DEPARTURES
  /\ currentTrainIndex >= 1 /\ departures # <<>>
  /\ lastDataFetch > 0

\* C15 as stated: whenever the link goes down at some time t while loop() is
\* running, the link check observes the loss no later than t + 30 s, whatever
\* the display state and whatever blocking phase is in progress.
C15_DetectedWithin30s ==
  [][(pc = "wifiCheck" /\ ev'.attempts > 0) => now - ev'.lostAt <= 30000]_vars

\* C15, amended: the link is read only at the start of an iteration of loop(),
\* and only when more than 30000 ms have passed since the previous check; a
\* loss at time t is observed at the first such iteration start, which is no
\* later than t + 30 s plus the duration of the iteration of loop() (with its
\* blocking phases) that was in progress when the 30 s elapsed.
C15_DetectedAtNextCheck ==
  [][(variant = "ntp" /\ pc = "wifiCheck")
     => /\ (now - lastWiFiCheck > 30000) <=> (lastWiFiCheck' # lastWiFiCheck \/ pc' = "restarted")
        /\ ev'.attempts > 0
             => /\ now - lastWiFiCheck > 30000
                /\ ev'.lostAt >= LastSeenUp
                /\ \/ iterStart < LastSeenUp /\ now - ev'.lostAt <= 30000
                   \/ /\ iterStart >= LastSeenUp
                      /\ iterStart - lastWiFiCheck <= 30000
                      /\ now - ev'.lostAt <= 30000 + (now - iterStart)]_vars

\* The link was lost right after a check that read it up; the next check came
\* more than 30 s after the loss, at the end of an iteration of loop() that
\* blocked for more than a second.
C15_Witness ==
  /\ variant = "ntp" /\ ev.op = "wifi" /\ ev.attempts > 0
  /\ ev.lostAt >= loopStart
  /\ iterStart - ev.lostAt > 30000 + 1000

(***************************************************************************)
(* C16                                                                     *)
(***************************************************************************)
\* The display cycle is where it was before the step.
CycleKept ==
  /\ currentState' = currentState
  /\ stateChangeTimestamp' = stateChangeTimestamp
  /\ currentTrainIndex' = currentTrainIndex
  /\ lastShownTrainIndex' = lastShownTrainIndex

\* A call of fetchData made by loop().
LoopFetch == pc = "fetchCheck" /\ ev'.fetched

MainLoopFields ==
  <<fb, currentState, stateChangeTimestamp, currentTrainIndex,
    lastShownTrainIndex, currentHour, currentMinute, currentSecond,
    weatherString, stationName, departures>>

\* C17: under any interleaving of the timer callback triggerScan with steps of
\* the main loop, a run of triggerScan writes neither the frame buffer nor
\* currentState, stateChangeTimestamp, currentTrainIndex, lastShownTrainIndex,
\* the clock fields, weatherString, stationName or departures; these change
\* only in steps of the main loop.
C17_ScanWritesNothing ==
  [][/\ TriggerScan => MainLoopFields' = MainLoopFields
     /\ MainLoopFields' # MainLoopFields => pc' # pc /\ panel' = panel]_vars

\* The refresh ran between two steps of the main loop that drew different
\* frames: the panel holds a departure drawn earlier while the buffer already
\* holds the next one.
C17_Witness ==
  /\ panel # <<>> /\ fb # <<>> /\ panel # fb
  /\ currentState = STATE_SHOW_DEPARTURES
  /\ currentTrainIndex >= 2
  /\ pc = "tick"

(***************************************************************************)
(* C18                                                                     *)
(***************************************************************************)
\* C18: in both variants, in every state after startup the clock fields
\* satisfy 0 <= currentHour <= 23, 0 <= currentMinute <= 59 and
\* 0 <= currentSecond <= 59, whatever the time source delivers.
C18_ClockInRange ==
  pc # "setup"
    => /\ currentHour \in 0..23
       /\ currentMinute \in 0..59
       /\ currentSecond \in 0..59

(***************************************************************************)
(* C19                                                                     *)
(***************************************************************************)
\* The local clock as seconds after midnight.
ClockSeconds == 3600 * currentHour + 60 * currentMinute + currentSecond

ClockValid ==
  currentHour \in 0..23 /\ currentMinute \in 0..59 /\ currentSecond \in 0..59

\* C19: in the API-synced variant, between two fetches the local clock
\* advances by exactly one second for every 1000 ms of elapsed time, also when
\* loop() has spent more than a second in a blocking phase: at every clock
\* update since the last fetch, the clock gains the whole seconds that have
\* elapsed since the previous update.
C19_ClockKeepsTime ==
  [][(/\ variant = "api" /\ pc = "tick"
      /\ lastSecondTick >= lastDataFetch
      /\ ClockValid)
     => (ClockSeconds' - ClockSeconds) % 86400 = (now - lastSecondTick) \div 1000]_vars

(***************************************************************************)
(* C20                                                                     *)
(***************************************************************************)
Digit(d) ==
  CASE d = 0 -> "0" [] d = 1 -> "1" [] d = 2 -> "2" [] d = 3 -> "3" [] d = 4 -> "4"
    [] d = 5 -> "5" [] d = 6 -> "6" [] d = 7 -> "7" [] d = 8 -> "8" [] d = 9 -> "9"

TwoDigits(n) == Digit(n \div 10) \o Digit(n % 10)

\* C20: for every hour in 0..23, minute in 0..59 and second in 0..59 the
\* string drawn in ShowTime is exactly the 8 characters HH:MM:SS, each field
\* two decimal digits with a leading zero when the value is below 10.
C20_TimeFormat ==
  pc = "timeDone"
    => /\ Len(fb) = 1
       /\ Len(fb[1].s) = 8
       /\ fb[1].s = TwoDigits(currentHour) \o ":" \o TwoDigits(currentMinute)
                      \o ":" \o TwoDigits(currentSecond)

\* Every field below 10: the time 09:05:07 has been drawn.
C20_Witness ==
  /\ pc = "timeDone" /\ ev.redraw
  /\ currentHour = 9 /\ currentMinute = 5 /\ currentSecond = 7
  /\ Shown(fb) = <<<<10, TEXT_Y_POS, "09:05:07">>>>

(***************************************************************************)
(* C21                                                                     *)
(***************************************************************************)
\* C21: a successful fetch whose response has no stationName field leaves
\* stationName at its value before the fetch, and the header line scrolled in
\* ShowDeparturesHeader is "Treni da " followed by stationName when it is
\* non-empty and by the fallback "CF" when it is empty.
C21_StationNameFallback ==
  [][/\ (variant = "ntp" /\ ev'.fetched /\ ev'.kind = "ok" /\ ~ev'.named)
        => stationName' = stationName
     /\ (variant = "ntp" /\ pc = "tick"
           /\ currentState = STATE_SHOW_DEPARTURES_HEADER)
        => /\ stationName = "" => ev'.marquee = "Treni da CF"
           /\ stationName = "Modena" => ev'.marquee = "Treni da Modena"
           /\ stationName \in {"", "Modena"}]_vars

\* A fetch without stationName came after one that had set the name, and the
\* header was then scrolled with the retained name.
C21_Witness ==
  /\ variant = "ntp" /\ ev.op = "tick" /\ ev.state = STATE_SHOW_DEPARTURES_HEADER
  /\ ev.marquee = "Treni da Modena"
  /\ loopFetches >= 1
  /\ Len(departures) = 2

(***************************************************************************)
(* C22                                                                     *)
(***************************************************************************)
\* C22: whatever fetches replace the departures list, and whenever they do
\* (also between two entries of a ShowDepartures pass), every access
\* departures[currentTrainIndex] and departures[lastShownTrainIndex] made by
\* the state machine uses an index i with 0 <= i < size of the list at that
\* moment.
C22_IndexInBounds ==
  [][pc = "tick"
     => /\ ~ev'.oob
        /\ \A i \in ev'.indexed : 0 <= i /\ i < Len(departures)]_vars

\* A slide-up read both indices on a list that a fetch had put in place of
\* a longer one during the pass.
C22_Witness ==
  /\ ev.op = "tick" /\ ev.render = "slide"
  /\ pass.replaced
  /\ ev.indexed = {ev.from, ev.to}
  /\ Len(departures) < MaxDepartures
  /\ ev.to = Len(departures) - 1

(***************************************************************************)
(* C23                                                                     *)
(***************************************************************************)
\* The previous tick showed the last entry of the list: the large font is
\* selected in ShowDepartures only by the tick whose index reached the list
\* length.
ReachedListEnd ==
  currentState = STATE_SHOW_DEPARTURES /\ currentFont = FONT_ARIAL_14

\* C23: in ShowDepartures each shown entry (direct render or slide-up) is
\* followed by a 3750 ms hold, after which currentTrainIndex increases by
\* exactly 1 and lastShownTrainIndex becomes the index just shown; when the
\* index reaches the list length the large font is restored, and on the
\* following tick the state becomes ShowTime with currentTrainIndex = 0 and
\* lastShownTrainIndex = -1.
C23_HoldAdvanceReturn ==
  [][(pc = "tick" /\ currentState = STATE_SHOW_DEPARTURES)
     => /\ ev'.render \in {"direct", "slide"}
             => /\ ev'.delayed = 3750 + ev'.frames * animSpeed
                /\ currentTrainIndex' = currentTrainIndex + 1
                /\ lastShownTrainIndex' = currentTrainIndex
                /\ currentTrainIndex' >= Len(departures)
                     => currentFont' = FONT_ARIAL_14
        /\ ReachedListEnd
             => /\ currentState' = STATE_SHOW_TIME
                /\ currentTrainIndex' = 0
                /\ lastShownTrainIndex' = -1]_vars

(***************************************************************************)
(* C24                                                                     *)
(***************************************************************************)
\* C24: the state machine leaves ShowTime only on a tick at which more than
\* 10000 ms have elapsed since the tick on which ShowTime was entered, and it
\* leaves (to ShowWeather) on the first tick at which that holds.  enterTime
\* is the time of the entry tick, and a tick in ShowTime changes the state
\* exactly when more than 10000 ms have passed since then.
C24_LeavesAfterTenSeconds ==
  [][/\ (pc = "tick" /\ currentState = STATE_SHOW_TIME)
        => /\ enterTime' = IF fresh THEN now ELSE enterTime
           /\ currentState' = IF now - enterTime' > 10000
                              THEN STATE_SHOW_WEATHER ELSE STATE_SHOW_TIME
     /\ (pc # "tick" /\ currentState = STATE_SHOW_TIME)
        => enterTime' = enterTime /\ currentState' = STATE_SHOW_TIME]_vars

\* ShowTime was entered again after a departures pass and has just been left,
\* on the first tick more than 10000 ms after the entry tick.
C24_Witness ==
  /\ ev.op = "tick" /\ ev.state = STATE_SHOW_TIME
  /\ currentState = STATE_SHOW_WEATHER
  /\ enterTime > loopStart
  /\ stateChangeTimestamp - enterTime > 10000
  /\ stateChangeTimestamp - enterTime <= 10000 + LoopMs

(***************************************************************************)
(* C25                                                                     *)
(***************************************************************************)
\* C25: in every slide-up run by ShowDepartures the outgoing record passed to
\* animateTrainSlideUp is the record that was most recently rendered on the
\* panel, also when a fetch replaces the departures list between two entries
\* of the pass.
C25_OutgoingIsShown ==
  [][(pc = "tick" /\ ev'.render = "slide") => ev'.out = pass.last]_vars

(***************************************************************************)
(* C26                                                                     *)
(***************************************************************************)
\* C26: in ShowDeparturesHeader of the NTP-synced sketch the train icon drawn
\* on entry is still in the frame buffer while the header line scrolls: no
\* clear of the frame buffer happens between drawing the icon and the first
\* marquee step.
C26_IconStaysDuringScroll ==
  [][(variant = "ntp" /\ pc = "tick"
        /\ currentState = STATE_SHOW_DEPARTURES_HEADER)
     => ev'.iconAtScroll]_vars

(***************************************************************************)
(* C27                                                                     *)
(***************************************************************************)
\* C27: with every marquee scroll and every fetch terminating and the link
\* supervisor never exhausting its retries, the state machine reaches
\* ShowTime from every reachable state, whatever the fetch outcomes and the
\* snapshot contents are.  Stated as bounded progress over the iterations of
\* loop(): a tick in ShowWeather moves to ShowDeparturesHeader, a tick in
\* ShowDeparturesHeader moves to ShowDepartures, a tick in ShowDepartures
\* either moves to ShowTime or shows one more entry of the pass, a pass shows
\* at most MaxDepartures entries, and no step other than a tick changes the
\* state; so ShowTime is reached within MaxDepartures + 3 iterations.
C27_ShowTimeWithinBoundedTicks ==
  [][/\ pc = "tick"
        => /\ currentState = STATE_SHOW_WEATHER
                => currentState' = STATE_SHOW_DEPARTURES_HEADER
           /\ currentState = STATE_SHOW_DEPARTURES_HEADER
                => currentState' = STATE_SHOW_DEPARTURES
           /\ currentState = STATE_SHOW_DEPARTURES
                => \/ currentState' = STATE_SHOW_TIME
                   \/ /\ currentState' = STATE_SHOW_DEPARTURES
                      /\ Len(pass'.log) = Len(pass.log) + 1
                      /\ Len(pass'.log) <= MaxDepartures
     /\ pc # "tick" => currentState' = currentState]_vars

\* A pass that showed an entry, lost its list to a fetch that failed on the
\* JSON body, and returned to ShowTime on the next tick.
C27_Witness ==
  /\ ev.op = "tick" /\ ev.state = STATE_SHOW_DEPARTURES
  /\ currentState = STATE_SHOW_TIME
  /\ pass.replaced /\ Len(pass.log) >= 1
  /\ weatherString = "JSON Error"
  /\ departures = <<>>

(***************************************************************************)
(* C28                                                                     *)
(***************************************************************************)
\* The attempts of the call in which the link comes up within the 40 polls.
AssociatingAttempts == {i \in 1..call.maxRetries : call.script[i] <= 40}

FirstAssociating == CHOOSE i \in AssociatingAttempts :
                      \A j \in AssociatingAttempts : i <= j

\* C28: connectToWiFiRobust(maxRetries) terminates; it makes at most
\* maxRetries attempts, polls the link at most 40 times, 500 ms apart, in each
\* attempt, stops at the first attempt that ends associated, and returns true
\* if and only if some attempt ended associated.
C28_ConnectBounded ==
  pc \in {"connected", "notConnected"}
    => /\ ev.attempts <= call.maxRetries
       /\ Len(ev.pollLog) = ev.attempts
       /\ \A j \in 1..ev.attempts :
            /\ ev.pollLog[j] <= 40
            /\ ev.pollLog[j] = IF call.script[j] <= 40 THEN call.script[j] ELSE 40
       /\ ev.attempts = IF AssociatingAttempts = {} THEN call.maxRetries
                        ELSE FirstAssociating
       /\ (pc = "connected") <=> (AssociatingAttempts # {})
       /\ now = 3000 * ev.attempts + 500 * ev.polls

\* Three attempts: two ran through all 40 polls without the link, the third
\* associated at its last poll.
C28_Witness ==
  /\ pc = "connected"
  /\ call.maxRetries = 3
  /\ ev.pollLog = <<40, 40, 40>>
  /\ call.script[3] = 40

(***************************************************************************)
(* C29                                                                     *)
(***************************************************************************)
\* C29: displayScrollingText returns only after a marquee step has reported
\* that the text has fully left the panel, every step moves the text one
\* pixel column to the left, and any two consecutive steps are more than
\* 35 ms apart.
C29_ScrollSteps ==
  [][/\ ev'.steps # ev.steps
        => /\ ev'.steps = ev.steps + 1
           /\ call'.x = call.x - 1
           /\ now - call.timer > 35
           /\ call'.timer = now
           /\ call'.ret <=> call'.x + MarqueeWidth(call.text) < 0
     /\ pc' = "scrollDone" /\ pc # "scrollDone"
        => /\ call.ret
           /\ ev.steps = ScrollSteps(call.left, MarqueeWidth(call.text))
           /\ now >= 10 + (MARQUEE_STEP_MS + 1) * ev.steps
           /\ fb' = <<>>]_vars

\* C29, termination: the marquee reports completion after finitely many
\* steps, so the call returns for every text.
C29_ScrollTerminates == <>(pc = "scrollDone")

\* C29, both parts: the steps are as stated and the call returns.
C29_ScrollStepsUntilDone == C29_ScrollSteps /\ C29_ScrollTerminates

\* The text "Hi" has been scrolled from the right edge until it had left the
\* panel, some steps coming later than 36 ms after the one before.
C29_Witness ==
  /\ pc = "scrollDone"
  /\ call.text = "Hi" /\ call.left = 32 * DISPLAYS_ACROSS
  /\ ev.steps = call.left + 2 * CharWidth + 1
  /\ call.x = -(2 * CharWidth) - 1
  /\ now > 10 + 36 * ev.steps

\* The two lines of a record at rest: destination at (2, 0), time and delay
\* at (TRAIN_DEP_TIME_X_OFFSET, 8), in drawing order.
RestLayout(train) ==
  <<TextItem(Cur, 2, 0, train.destination),
    TextItem(Cur, TRAIN_DEP_TIME_X_OFFSET, 8,
             train.departureTime \o " " \o train.delay)>>

\* C30: when the outgoing and the incoming record both have a destination,
\* the first frame of animateTrainSlideUp holds only the outgoing record at
\* rest (destination at x = 2, y = 0, time and delay at x = 8, y = 8), the
\* last frame holds only the incoming record at the same places, and that is
\* what the direct render of the first train draws for the same record.
C30_SlideStartsAndEndsAtRest ==
  (/\ pc = "animDone" /\ call.out # <<>> /\ call.in # <<>>
   /\ call.out[1].destination # "" /\ call.in[1].destination # "")
    => /\ TRAIN_DEP_TIME_X_OFFSET = 8
       /\ ev.frameLog[1] = RestLayout(call.out[1])
       /\ ev.frameLog[Len(ev.frameLog)] = RestLayout(call.in[1])
       /\ ev.frameLog[Len(ev.frameLog)] = DirectRender(Cur, call.in[1]).fb
       /\ fb = RestLayout(call.in[1])

\* Two different records with a destination were animated: the first frame
\* and the last one hold two lines each and differ.
C30_Witness ==
  /\ pc = "animDone" /\ call.out # <<>> /\ call.in # <<>>
  /\ call.out[1].destination # "" /\ call.in[1].destination # ""
  /\ call.out[1].destination # call.in[1].destination
  /\ Len(ev.frameLog) = 17
  /\ Len(ev.frameLog[1]) = 2 /\ Len(ev.frameLog[17]) = 2
  /\ ev.frameLog[1] # ev.frameLog[17]

\* The step just taken drew the HH:MM:SS string in STATE_SHOW_TIME.
TimeJustDrawn == ev.op = "tick" /\ ev.state = STATE_SHOW_TIME /\ ev.redraw

\* C31 as stated: in both sketches, whenever ShowTime draws the HH:MM:SS
\* string the selected font is FONT_ARIAL_14 and currentYOffset is 2, so the
\* string is drawn in the large font at row 2, on every path into ShowTime.
C31_TimeInLargeFont ==
  TimeJustDrawn
    => /\ currentFont = FONT_ARIAL_14 /\ currentYOffset = 2
       /\ fb # <<>>
       /\ fb[Len(fb)].f = FONT_ARIAL_14 /\ fb[Len(fb)].y = 2

\* The verdict a test has to give when the time `elapsed` has really passed.
TrueVerdict(test, elapsed) ==
  CASE test = "link" -> Lt32(U32(30000), elapsed)
    [] test = "fetch" -> ~Lt32(elapsed, U32(300000))
    [] test = "showTime" -> Lt32(U32(10000), elapsed)
    [] test = "marquee" -> Lt32(U32(35), elapsed)

\* millis() has wrapped between storing the timestamp and the test.
WrappedSince == Lt32(call.m, call.stamp)

\* C32: with millis() a 32-bit counter that wraps modulo 2^32, each
\* elapsed-time test (fetch interval >= 300000, ShowTime duration > 10000,
\* link check > 30000, marquee step > 35) gives the verdict of the time
\* that has really passed, below 2^32 ms, also when millis() has wrapped
\* between the stored timestamp and the test.
C32_WrapSafeTests ==
  pc = "tested"
    => /\ call.due = TrueVerdict(call.test, call.elapsed)
       /\ Sub32(call.m, call.stamp) = call.elapsed

\* The fetch test has run after a wrap of millis(): the timestamp was taken
\* 300000 ms before the wrap, exactly the interval has passed, millis()
\* reads 0 and the fetch is due.
C32_Witness ==
  /\ pc = "tested" /\ call.test = "fetch"
  /\ WrappedSince
  /\ call.elapsed = U32(fetchInterval)
  /\ call.m = U32(0)
  /\ call.due

====
